---- MODULE Spec2Model ----
(***************************************************************************)
(* Model of the AirFit server's persistence and coordination core:         *)
(*   - server/context_store.py : the file-backed snapshot/insight store,   *)
(*     its TTL cache and its LOCK;                                          *)
(*   - server/scheduler.py     : the background tasks and their persisted  *)
(*     SchedulerState.                                                      *)
(* Timestamps that no property reads (last_updated, last_sync) are left    *)
(* out of the stored records; every other field the operations touch is    *)
(* kept.                                                                    *)
(***************************************************************************)
EXTENDS Integers, Sequences, FiniteSets, TLC

\* ------------------------------------------------------------- bounds
\* The calls (writers and handlers) one run may start.
MaxCalls == 3
\* The task calls (run_insight_generation, run_hevy_sync) one run may start.
MaxRuns == 2
\* The hours the clock runs.
MaxClock == 6
\* The insights one generation returns.
MaxBatch == 1
\* The readings in one list handed to compute_ema.
MaxReadings == 3
\* The last of the days 0..MaxDay a snapshot can be dated.
MaxDay == 4
\* The upsert_performance calls of one run.
MaxUpserts == 3
\* The get_or_create_session calls of one run.
MaxSessionCalls == 3
\* The insights in the store get_insights reads.
MaxInsights == 2
\* The callers' call_claude calls of one run.
MaxClaudeCalls == 2
\* The nested calls the interpreter allows (sys.getrecursionlimit(), scaled down).
RecursionLimit == 4

\* ------------------------------------------------- program constants
CACHE_TTL_SECONDS == 5
insight_generation_interval_hours == 6
hevy_sync_interval_hours == 1
\* Optional[str] = None for a timestamp
NoTime == -1

\* --------------------------------------------------------- universes
Threads == {"main", "sched", "aux"}
\* "main" runs the HTTP handlers one at a time on the server's event loop,
\* "sched" is the background scheduler's thread; "aux" is any other caller
\* of the module's functions.
ServerThreads == {"main", "sched"}
Dates == {"d1", "d2"}
Fields == {"nutrition", "health", "workout"}
\* Payloads differ from the default, so a lost contribution shows.
Vals == {1, 2}
Refs == {"o1", "o2", "o3"}
Engagements == {"viewed", "dismissed"}
None == "none"

VARIABLES
    disk,       \* context_store.json: [kind, store]
    heap,       \* live ContextStore objects, by reference
    cache,      \* _cache: a reference or None
    cacheAge,   \* time.time() - _cache_timestamp, capped at the TTL
    lock,       \* LOCK: the thread that holds it, or None
    pc,         \* each thread's position
    call,       \* each thread's current call and its arguments
    work,       \* the store a writer loaded under the lock
    sref,       \* the store object a handler on "main" holds
    snap,       \* the DailySnapshot sync_insights_data holds
    nextId,     \* insights created so far (ids are fresh uuid4 values)
    calls,      \* calls started so far
    issued,     \* the calls handed to the threads at the start (SpecUpdates)
    started,    \* the threads whose issued call has entered the lock
    repeated    \* an update call has completed whose value and tag were already stored

storeVars == <<disk, heap, cache, cacheAge, lock, pc, call, work, sref, snap,
               nextId, calls, issued, started, repeated>>

VARIABLES
    sfile,      \* scheduler_state.json: [kind, state]
    now,        \* datetime.now(), in hours
    spc,        \* each coroutine's position
    sstate,     \* each coroutine's local `state`, as it loaded it
    sforce,     \* each coroutine's `force` argument
    sresult,    \* what each coroutine's last call returned
    turn,       \* the coroutine the server's event loop is running, or None
    runs        \* task calls started so far

schedVars == <<sfile, now, spc, sstate, sforce, sresult, turn, runs>>

\* The arguments and the return value of a call of one of the pure
\* functions (compute_ema, get_snapshots_range, get_insights, ...).
VARIABLES
    fnArgs,     \* the call's arguments, and the data it reads
    fnResult    \* what the call returned: <<value>>, or <<>> before it has run

\* exercise_store.py
VARIABLES
    exercises,  \* exercise_history.json: "exercises", name -> history
    upserted    \* every (name, performance) upsert_performance was called with

exVars == <<exercises, upserted>>

\* sessions.py and llm_router.call_claude
VARIABLES
    sessFile,   \* sessions.json: the entry of "default:claude", <<entry>> or <<>>
    sessPc,     \* each thread's position in a function of sessions.py
    sessLocal,  \* each thread's local `sessions`, as _load_sessions gave it
    sessRet,    \* what each thread's last call returned
    sessNext,   \* sessions created so far (ids are fresh uuid4 values)
    sessLog,    \* since the last clear: the ids returned and the calls completed
    claude      \* the call_claude under way: position, nesting, session_id

sessVars == <<sessFile, sessPc, sessLocal, sessRet, sessNext, sessLog, claude>>

libVars == <<fnArgs, fnResult, exVars, sessVars>>

vars == <<storeVars, schedVars, libVars>>

\* ------------------------------------------------------- data shapes
Range(s) == {s[i] : i \in 1..Len(s)}

\* asdict(NutritionSnapshot()) and the other defaults are the value 0.
DefaultVal == 0

EmptyStore == [snapshots |-> [d \in {} |-> 0], insights |-> <<>>]

NoCall == [op |-> "none", date |-> "-", field |-> "-", val |-> 0, iid |-> 0,
           eng |-> "-"]

UpdateCall(d, f, v) == [NoCall EXCEPT !.op = "update", !.date = d, !.field = f, !.val = v]

AddInsightCall(id) == [NoCall EXCEPT !.op = "add_insight", !.iid = id]

UpsertCall == [NoCall EXCEPT !.op = "upsert"]

EngageCall(id, e) == [NoCall EXCEPT !.op = "engage", !.iid = id, !.eng = e]

NoSnap == [date |-> "-", nutrition |-> 0, health |-> 0, workout |-> 0,
           sources_synced |-> <<>>, alias |-> None]

SourceTag(f) ==
    CASE f = "nutrition" -> "nutrition"
      [] f = "health" -> "health"
      [] f = "workout" -> "hevy"

NewInsight(id) == [id |-> id, engagement |-> None, dismissed_at |-> FALSE,
                   surfaced_at |-> FALSE]

\* store.snapshots[d] = rec
PutSnapshot(snaps, d, rec) ==
    [x \in DOMAIN snaps \cup {d} |-> IF x = d THEN rec ELSE snaps[x]]

\* A load that takes whatever text the file holds for a store.
ReadStoreFileUnchecked(f) == f.store

\* The load at the head of every writer (and of load_store on a miss): a
\* missing or unparseable file yields ContextStore().
ReadStoreFile(f) == IF f.kind = "json" THEN f.store ELSE EmptyStore

\* json.dump of the whole aggregate into the file.
WriteStoreFile(store) == [kind |-> "json", store |-> store]

\* existing.get(key, default) with existing = store.snapshots.get(d, {})
ExistingGet(store, d, key, default) ==
    IF d \in DOMAIN store.snapshots THEN store.snapshots[d][key] ELSE default

MergeSourceNoCheck(sources, tag) == Append(sources, tag)

\* if source_tag not in sources: sources.append(source_tag)
MergeSource(sources, tag) ==
    IF tag \in Range(sources) THEN sources ELSE Append(sources, tag)

AtomicUpdateOverwrite(store, d, f, v, tag) ==
    LET blank == [nutrition |-> DefaultVal, health |-> DefaultVal,
                  workout |-> DefaultVal, sources_synced |-> <<tag>>]
    IN  [store EXCEPT !.snapshots = PutSnapshot(@, d, [blank EXCEPT ![f] = v])]

\* The body of _atomic_update_snapshot between the load and the save.
AtomicUpdateSnapshot(store, d, f, v, tag) ==
    LET sources == MergeSource(ExistingGet(store, d, "sources_synced", <<>>), tag)
        snapshot_dict ==
            [nutrition |-> ExistingGet(store, d, "nutrition", DefaultVal),
             health |-> ExistingGet(store, d, "health", DefaultVal),
             workout |-> ExistingGet(store, d, "workout", DefaultVal),
             sources_synced |-> sources]
    IN  [store EXCEPT !.snapshots =
            PutSnapshot(@, d, [snapshot_dict EXCEPT ![f] = v])]

\* store.snapshots[snapshot.date] = snapshot_dict
UpsertSnapshot(store, sn) ==
    [store EXCEPT !.snapshots =
        PutSnapshot(@, sn.date,
            [nutrition |-> sn.nutrition, health |-> sn.health,
             workout |-> sn.workout, sources_synced |-> sn.sources_synced])]

\* store.insights.append(asdict(insight))
AddInsight(store, id) ==
    [store EXCEPT !.insights = Append(@, NewInsight(id))]

\* The one logical mutation a writer applies to the store it loaded.
ApplyCall(store, c, sn) ==
    CASE c.op = "update" ->
            AtomicUpdateSnapshot(store, c.date, c.field, c.val, SourceTag(c.field))
      [] c.op = "add_insight" -> AddInsight(store, c.iid)
      [] c.op = "upsert" -> UpsertSnapshot(store, sn)

\* ------------------------------------------------------------- heap
FreeRef(h) == CHOOSE r \in Refs : r \notin DOMAIN h

\* Objects no variable refers to any more are dropped.
Collect(h, keep) == [r \in (DOMAIN h) \cap keep |-> h[r]]

HeldRefs(c, s) == ({c} \cup {s[t] : t \in Threads}) \ {None}

CacheFresh == cache # None /\ cacheAge < CACHE_TTL_SECONDS

\* ------------------------------------------------------------- Init
\* A call's return value is held as <<value>>, and <<>> before the call.
NoArgs == <<>>
NotCalled == <<>>
Returned(v) == <<v>>

\* No call of a pure function is under way.
InitFn ==
    /\ fnArgs = NoArgs
    /\ fnResult = NotCalled

\* exercise_history.json does not exist yet.
InitExercises ==
    /\ exercises = [n \in {} |-> <<>>]
    /\ upserted = {}

SessThreads == {"server", "sched"}

\* sessions.json does not exist yet and nothing is under way.
InitSessions ==
    /\ sessFile = <<>>
    /\ sessPc = [t \in SessThreads |-> "idle"]
    /\ sessLocal = [t \in SessThreads |-> <<>>]
    /\ sessRet = [t \in SessThreads |-> <<>>]
    /\ sessNext = 0
    /\ sessLog = [ids |-> {}, calls |-> 0, started |-> 0]
    /\ claude = [pc |-> "idle", depth |-> 0, session_id |-> 0, retries |-> 0,
                 result |-> "none", calls |-> 0]

InitLib ==
    /\ InitFn
    /\ InitExercises
    /\ InitSessions

\* Nothing is cached, locked or under way when the process starts.
InitObjects ==
    /\ heap = [r \in {} |-> EmptyStore]
    /\ cache = None
    /\ cacheAge = 0
    /\ lock = None
    /\ pc = [t \in Threads |-> "idle"]
    /\ call = [t \in Threads |-> NoCall]
    /\ work = [t \in Threads |-> EmptyStore]
    /\ sref = [t \in Threads |-> None]
    /\ snap = NoSnap
    /\ nextId = 0
    /\ calls = 0
    /\ issued = [t \in Threads |-> NoCall]
    /\ started = {}
    /\ repeated = FALSE

InitMemory ==
    /\ InitLib
    /\ InitObjects

InitStore ==
    /\ disk = [kind |-> "missing", store |-> EmptyStore]
    /\ InitMemory

\* ----------------------------------------------------------- writers
LockFree == lock = None

\* `with LOCK:` and the load of the current file at the head of a writer.
EnterLocked(t, c) ==
    /\ LockFree
    /\ lock' = t
    /\ pc' = [pc EXCEPT ![t] = "locked"]
    /\ call' = [call EXCEPT ![t] = c]
    /\ work' = [work EXCEPT ![t] = ReadStoreFile(disk)]

\* A writer that saves the file and leaves the cache as it was.
PublishStaleCache(t, store, r, sref2) ==
    /\ disk' = WriteStoreFile(store)
    /\ UNCHANGED <<cache, cacheAge, heap>>
    /\ sref' = sref2
    /\ lock' = None
    /\ pc' = [pc EXCEPT ![t] = "idle"]
    /\ call' = [call EXCEPT ![t] = NoCall]
    /\ work' = [work EXCEPT ![t] = EmptyStore]

\* The save and the cache update that end a writer, then the lock's release:
\* json.dump(data, f); _cache = store; _cache_timestamp = time.time()
Publish(t, store, r, sref2) ==
    /\ disk' = WriteStoreFile(store)
    /\ cache' = r
    /\ cacheAge' = 0
    /\ sref' = sref2
    /\ heap' = Collect([x \in DOMAIN heap \cup {r} |-> IF x = r THEN store ELSE heap[x]],
                       HeldRefs(r, sref2))
    /\ lock' = None
    /\ pc' = [pc EXCEPT ![t] = "idle"]
    /\ call' = [call EXCEPT ![t] = NoCall]
    /\ work' = [work EXCEPT ![t] = EmptyStore]

\* The call finds its value and its source tag already stored for its date.
Repeats(store, c) ==
    /\ c.date \in DOMAIN store.snapshots
    /\ store.snapshots[c.date][c.field] = c.val
    /\ SourceTag(c.field) \in Range(store.snapshots[c.date].sources_synced)

\* update_nutrition / update_health / update_workout enter the lock
BeginUpdate(t) ==
    /\ t \in ServerThreads
    /\ pc[t] = "idle"
    /\ calls < MaxCalls
    /\ calls' = calls + 1
    /\ \E d \in Dates, f \in Fields, v \in Vals : EnterLocked(t, UpdateCall(d, f, v))
    /\ UNCHANGED <<disk, heap, cache, cacheAge, sref, snap, nextId, issued, started, repeated, schedVars, libVars>>

\* ... and merge one field of one date into the store they loaded
EndUpdate(t) ==
    /\ pc[t] = "locked" /\ lock = t /\ call[t].op = "update"
    /\ Publish(t, ApplyCall(work[t], call[t], snap), FreeRef(heap), sref)
    /\ repeated' = (repeated \/ Repeats(work[t], call[t]))
    /\ UNCHANGED <<snap, nextId, calls, issued, started, schedVars, libVars>>

\* add_insight, with the fresh uuid4 id generate_insights gave the insight
BeginAddInsight(t) ==
    /\ t \in ServerThreads
    /\ pc[t] = "idle"
    /\ calls < MaxCalls
    /\ calls' = calls + 1
    /\ EnterLocked(t, AddInsightCall(nextId + 1))
    /\ UNCHANGED <<disk, heap, cache, cacheAge, sref, snap, nextId, issued, started, repeated, schedVars, libVars>>

EndAddInsight(t) ==
    /\ pc[t] = "locked" /\ lock = t /\ call[t].op = "add_insight"
    /\ nextId' = nextId + 1
    /\ Publish(t, ApplyCall(work[t], call[t], snap), FreeRef(heap), sref)
    /\ UNCHANGED <<snap, calls, issued, started, repeated, schedVars, libVars>>

\* ------------------------------------------------------------ readers
\* load_store: the cache while it is fresh, else the file, which becomes the
\* cache. Yields the new heap, the new cache and the returned reference.
LoadStoreMiss == ~CacheFresh

LoadStoreHeap ==
    IF CacheFresh THEN heap
    ELSE LET r == FreeRef(heap)
         IN  [x \in DOMAIN heap \cup {r} |-> IF x = r THEN ReadStoreFile(disk) ELSE heap[x]]

LoadStoreRef == IF CacheFresh THEN cache ELSE FreeRef(heap)

\* What load_store would return now.
LoadStoreValue == LoadStoreHeap[LoadStoreRef]

\* A read (get_snapshot, get_insights, ...) that finds the cache stale
Reload(t) ==
    /\ t \in ServerThreads
    /\ pc[t] = "idle"
    /\ LockFree
    /\ LoadStoreMiss
    /\ cache' = LoadStoreRef
    /\ cacheAge' = 0
    /\ heap' = Collect(LoadStoreHeap, HeldRefs(LoadStoreRef, sref))
    /\ UNCHANGED <<disk, lock, pc, call, work, sref, snap, nextId, calls, issued, started, repeated, schedVars, libVars>>

\* ------------------------------------------- update_insight_engagement
\* store = load_store()
EngageLoad(t) ==
    /\ t = "main"
    /\ pc[t] = "idle"
    /\ LockFree
    /\ calls < MaxCalls
    /\ calls' = calls + 1
    /\ \E id \in 0..nextId, e \in Engagements :
           call' = [call EXCEPT ![t] = EngageCall(id, e)]
    /\ cache' = LoadStoreRef
    /\ cacheAge' = IF CacheFresh THEN cacheAge ELSE 0
    /\ sref' = [sref EXCEPT ![t] = LoadStoreRef]
    /\ heap' = Collect(LoadStoreHeap, HeldRefs(LoadStoreRef, sref'))
    /\ pc' = [pc EXCEPT ![t] = "engage_loaded"]
    /\ UNCHANGED <<disk, lock, work, snap, nextId, issued, started, repeated, schedVars, libVars>>

\* A variant in which a later engagement takes the dismissal back.
EngagedUndismissing(ins, e) ==
    [ins EXCEPT !.engagement = e,
                !.surfaced_at = TRUE,
                !.dismissed_at = (e = "dismissed")]

\* The lifecycle fields of one insight dict, as the loop body sets them.
Engaged(ins, e) ==
    [ins EXCEPT !.engagement = e,
                !.surfaced_at = TRUE,
                !.dismissed_at = IF e = "dismissed" THEN TRUE ELSE @]

\* for insight_data in store.insights: if id matches: ...; break
EngageInsights(insights, id, e) ==
    LET hits == {i \in 1..Len(insights) : insights[i].id = id}
        first == IF hits = {} THEN 0 ELSE CHOOSE i \in hits : \A j \in hits : i <= j
    IN  [i \in 1..Len(insights) |->
            IF i = first THEN Engaged(insights[i], e) ELSE insights[i]]

\* The loop mutates the loaded object in place, outside the lock.
EngageMutate(t) ==
    /\ pc[t] = "engage_loaded"
    /\ heap' = [heap EXCEPT ![sref[t]].insights =
                    EngageInsights(@, call[t].iid, call[t].eng)]
    /\ pc' = [pc EXCEPT ![t] = "engage_mutated"]
    /\ UNCHANGED <<disk, cache, cacheAge, lock, call, work, sref, snap, nextId,
                   calls, issued, started, repeated, schedVars, libVars>>

\* save_store(store): the held object is written and becomes the cache
SaveStore(t) ==
    /\ pc[t] = "engage_mutated"
    /\ LockFree
    /\ disk' = WriteStoreFile(heap[sref[t]])
    /\ cache' = sref[t]
    /\ cacheAge' = 0
    /\ sref' = [sref EXCEPT ![t] = None]
    /\ heap' = Collect(heap, HeldRefs(sref[t], sref'))
    /\ pc' = [pc EXCEPT ![t] = "idle"]
    /\ call' = [call EXCEPT ![t] = NoCall]
    /\ UNCHANGED <<lock, work, snap, nextId, calls, issued, started, repeated, schedVars, libVars>>

\* ----------------------------------------------- sync_insights_data
\* snapshot = get_snapshot(day.date) or DailySnapshot(date=day.date): the
\* returned snapshot's sources_synced is the very list of the loaded store.
SyncGet(t) ==
    /\ t = "main"
    /\ pc[t] = "idle"
    /\ LockFree
    /\ calls < MaxCalls
    /\ calls' = calls + 1
    /\ \E d \in Dates :
        LET st == LoadStoreValue
            found == d \in DOMAIN st.snapshots
        IN  /\ snap' = IF found
                       THEN [date |-> d,
                             nutrition |-> st.snapshots[d].nutrition,
                             health |-> st.snapshots[d].health,
                             workout |-> st.snapshots[d].workout,
                             sources_synced |-> st.snapshots[d].sources_synced,
                             alias |-> LoadStoreRef]
                       ELSE [NoSnap EXCEPT !.date = d]
            /\ sref' = [sref EXCEPT ![t] = IF found THEN LoadStoreRef ELSE None]
    /\ cache' = LoadStoreRef
    /\ cacheAge' = IF CacheFresh THEN cacheAge ELSE 0
    /\ heap' = Collect(LoadStoreHeap, HeldRefs(LoadStoreRef, sref'))
    /\ pc' = [pc EXCEPT ![t] = "sync_got"]
    /\ UNCHANGED <<disk, lock, call, work, nextId, issued, started, repeated, schedVars, libVars>>

\* snapshot.nutrition = ...; snapshot.health = ...; the two appends to
\* snapshot.sources_synced, which change the aliased store object in place.
SyncMark(t) ==
    /\ pc[t] = "sync_got"
    /\ \E n \in Vals, h \in Vals :
        LET sources == MergeSource(MergeSource(snap.sources_synced, "nutrition"), "health")
        IN  /\ snap' = [snap EXCEPT !.nutrition = n, !.health = h,
                                    !.sources_synced = sources]
            /\ heap' = IF snap.alias = None THEN heap
                       ELSE [heap EXCEPT ![snap.alias].snapshots[snap.date].sources_synced =
                                sources]
    /\ pc' = [pc EXCEPT ![t] = "sync_marked"]
    /\ UNCHANGED <<disk, cache, cacheAge, lock, call, work, sref, nextId, calls,
                   issued, started, repeated, schedVars, libVars>>

\* upsert_snapshot(snapshot) enters the lock
BeginUpsert(t) ==
    /\ pc[t] = "sync_marked"
    /\ EnterLocked(t, UpsertCall)
    /\ UNCHANGED <<disk, heap, cache, cacheAge, sref, snap, nextId, calls, issued, started, repeated, schedVars, libVars>>

EndUpsert(t) ==
    /\ pc[t] = "locked" /\ lock = t /\ call[t].op = "upsert"
    /\ Publish(t, ApplyCall(work[t], call[t], snap), FreeRef(heap),
               [sref EXCEPT ![t] = None])
    /\ snap' = NoSnap
    /\ UNCHANGED <<nextId, calls, issued, started, repeated, schedVars, libVars>>

\* Enough time passes for the cache entry to outlive its TTL.
TtlElapses ==
    /\ CacheFresh
    /\ cacheAge' = CACHE_TTL_SECONDS
    /\ UNCHANGED <<disk, heap, cache, lock, pc, call, work, sref, snap, nextId,
                   calls, issued, started, repeated, schedVars, libVars>>

NextStore ==
    \/ \E t \in Threads : BeginUpdate(t)
    \/ \E t \in Threads : EndUpdate(t)
    \/ \E t \in Threads : BeginAddInsight(t)
    \/ \E t \in Threads : EndAddInsight(t)
    \/ \E t \in Threads : Reload(t)
    \/ \E t \in Threads : EngageLoad(t)
    \/ \E t \in Threads : EngageMutate(t)
    \/ \E t \in Threads : SaveStore(t)
    \/ \E t \in Threads : SyncGet(t)
    \/ \E t \in Threads : SyncMark(t)
    \/ \E t \in Threads : BeginUpsert(t)
    \/ \E t \in Threads : EndUpsert(t)
    \/ TtlElapses


\* ------------------------------------------------- store writes that fail
\* What a failed rewrite of context_store.json leaves: open(..., "w") raises
\* and the file is as it was, or json.dump stops part-way and the file
\* holds the beginning of the new text, which does not parse.
FailedStoreWrites(store) == {disk, [kind |-> "corrupt", store |-> store]}

\* The rewrite at the end of upsert_snapshot, _atomic_update_snapshot or
\* add_insight raises: the exception leaves the `with LOCK` block before the
\* cache is assigned.
WriterRaises(t) ==
    /\ pc[t] = "locked" /\ lock = t
    /\ disk' \in FailedStoreWrites(ApplyCall(work[t], call[t], snap))
    /\ lock' = None
    /\ pc' = [pc EXCEPT ![t] = "idle"]
    /\ call' = [call EXCEPT ![t] = NoCall]
    /\ work' = [work EXCEPT ![t] = EmptyStore]
    /\ IF call[t].op = "upsert"
       THEN /\ snap' = NoSnap
            /\ sref' = [sref EXCEPT ![t] = None]
            /\ heap' = Collect(heap, HeldRefs(cache, sref'))
       ELSE UNCHANGED <<snap, sref, heap>>
    /\ UNCHANGED <<cache, cacheAge, nextId, calls, issued, started, repeated, schedVars, libVars>>

\* save_store(store) at the end of update_insight_engagement raises.
SaveStoreRaises(t) ==
    /\ pc[t] = "engage_mutated"
    /\ LockFree
    /\ disk' \in FailedStoreWrites(heap[sref[t]])
    /\ sref' = [sref EXCEPT ![t] = None]
    /\ heap' = Collect(heap, HeldRefs(cache, sref'))
    /\ pc' = [pc EXCEPT ![t] = "idle"]
    /\ call' = [call EXCEPT ![t] = NoCall]
    /\ UNCHANGED <<cache, cacheAge, lock, work, snap, nextId, calls, issued, started,
                   repeated, schedVars, libVars>>

NextStoreFaults ==
    \/ NextStore
    \/ \E t \in Threads : WriterRaises(t)
    \/ \E t \in Threads : SaveStoreRaises(t)

\* ------------------------------------------- N concurrent update calls
\* The three update functions called at once for one date, one per thread,
\* on a store an earlier update may already have written.
FieldOf(t) ==
    CASE t = "main" -> "nutrition"
      [] t = "aux" -> "health"
      [] t = "sched" -> "workout"

InitialStores ==
    {EmptyStore} \cup
    {AtomicUpdateSnapshot(EmptyStore, d, f, v, SourceTag(f)) :
        d \in Dates, f \in Fields, v \in Vals}

InitUpdates ==
    /\ InitLib
    /\ \E st \in InitialStores :
           disk = IF st = EmptyStore THEN [kind |-> "missing", store |-> EmptyStore]
                  ELSE WriteStoreFile(st)
    /\ heap = [r \in {} |-> EmptyStore]
    /\ cache = None
    /\ cacheAge = 0
    /\ lock = None
    /\ pc = [t \in Threads |-> "idle"]
    /\ call = [t \in Threads |-> NoCall]
    /\ work = [t \in Threads |-> EmptyStore]
    /\ sref = [t \in Threads |-> None]
    /\ snap = NoSnap
    /\ nextId = 0
    /\ calls = 0
    /\ \E d \in Dates : \E vs \in [Threads -> Vals] :
           issued = [t \in Threads |-> UpdateCall(d, FieldOf(t), vs[t])]
    /\ started = {}
    /\ repeated = FALSE

\* The server starts on a context_store.json that does not parse: what is
\* left of some store after a rewrite that stopped part-way.
InitRecovery ==
    /\ InitLib
    /\ \E st \in InitialStores : disk = [kind |-> "corrupt", store |-> st]
    /\ heap = [r \in {} |-> EmptyStore]
    /\ cache = None
    /\ cacheAge = 0
    /\ lock = None
    /\ pc = [t \in Threads |-> "idle"]
    /\ call = [t \in Threads |-> NoCall]
    /\ work = [t \in Threads |-> EmptyStore]
    /\ sref = [t \in Threads |-> None]
    /\ snap = NoSnap
    /\ nextId = 0
    /\ calls = 0
    /\ issued = [t \in Threads |-> NoCall]
    /\ started = {}
    /\ repeated = FALSE

\* An issued call gets the lock.
BeginIssued(t) ==
    /\ t \notin started
    /\ pc[t] = "idle"
    /\ issued[t].op = "update"
    /\ started' = started \cup {t}
    /\ EnterLocked(t, issued[t])
    /\ UNCHANGED <<disk, heap, cache, cacheAge, sref, snap, nextId, calls, issued, repeated, schedVars, libVars>>

NextUpdates ==
    \/ \E t \in Threads : BeginIssued(t)
    \/ \E t \in Threads : EndUpdate(t)
    \/ TtlElapses


\* ============================================================ scheduler
\* The coroutines that call the tasks: the background loop, alone on the
\* scheduler thread's event loop, and two HTTP trigger requests, which
\* share the server's event loop and so interleave only at an await.
Procs == {"loop", "req1", "req2"}
OnServerLoop(p) == p # "loop"

\* SchedulerState() as the dataclass defaults give it; the two interval
\* fields are never assigned and stay at their defaults.
DefaultState ==
    [last_insight_generation |-> NoTime,
     last_hevy_sync |-> NoTime,
     insights_generated_today |-> 0,
     is_generating |-> FALSE,
     generation_error |-> None]

\* load_scheduler_state: a missing or unparseable file gives the defaults.
LoadSchedulerState(f) == IF f.kind = "json" THEN f.state ELSE DefaultState

\* save_scheduler_state: json.dump(state.to_dict())
SaveSchedulerState(st) == [kind |-> "json", state |-> st]

\* A call's returned dict, and whether generate_insights logged a failure
\* ("[InsightEngine] LLM call failed", "Failed to parse response", "Error
\* generating insights") during the call.
NoResult == [status |-> "none", next_run_in_hours |-> 0, hours_since_last |-> 0,
             generator_failed |-> FALSE]

Result(status) == [NoResult EXCEPT !.status = status]

InitSched ==
    /\ sfile = [kind |-> "missing", state |-> DefaultState]
    /\ now = 0
    /\ spc = [p \in Procs |-> "idle"]
    /\ sstate = [p \in Procs |-> DefaultState]
    /\ sforce = [p \in Procs |-> FALSE]
    /\ sresult = [p \in Procs |-> NoResult]
    /\ turn = None
    /\ runs = 0

Init == InitStore /\ InitSched

\* The server starts on a fresh data directory or on a store that an
\* earlier Hevy sync has filled.
InitServer ==
    /\ \/ disk = [kind |-> "missing", store |-> EmptyStore]
       \/ disk = WriteStoreFile(AtomicUpdateSnapshot(EmptyStore, "d1", "workout", 1,
                                                     SourceTag("workout")))
    /\ InitMemory
    /\ InitSched

\* A coroutine runs on its event loop from one await to the next.
TakeTurn(p) ==
    /\ OnServerLoop(p) => turn = None
    /\ turn' = IF OnServerLoop(p) THEN p ELSE turn

YieldTurn(p) == turn' = IF turn = p THEN None ELSE turn

\* Where a coroutine goes when run_insight_generation returns: the loop
\* goes on to run_hevy_sync, a request is done.
AfterInsight(p) == IF p = "loop" THEN "loop_hevy" ELSE "idle"

\* The call returns: its locals are gone.
Returns(p, result, next) ==
    /\ sresult' = [sresult EXCEPT ![p] = result]
    /\ spc' = [spc EXCEPT ![p] = next]
    /\ sstate' = [sstate EXCEPT ![p] = DefaultState]
    /\ sforce' = [sforce EXCEPT ![p] = FALSE]

\* The guard of lines 79-92 without the test of is_generating.
InsightGateNoGuard(st, force, t) ==
    IF /\ ~force
       /\ st.last_insight_generation # NoTime
       /\ (t - st.last_insight_generation) < insight_generation_interval_hours
    THEN "skipped"
    ELSE "run"

\* The guard of lines 79-92 with <= for <.
InsightGateInclusive(st, force, t) ==
    IF st.is_generating /\ ~force THEN "already_running"
    ELSE IF /\ ~force
            /\ st.last_insight_generation # NoTime
            /\ (t - st.last_insight_generation) <= insight_generation_interval_hours
         THEN "skipped"
         ELSE "run"

\* run_insight_generation, lines 79-92: what the call does with the state
\* it loaded, at hour t.
InsightGate(st, force, t) ==
    IF st.is_generating /\ ~force THEN "already_running"
    ELSE IF /\ ~force
            /\ st.last_insight_generation # NoTime
            /\ (t - st.last_insight_generation) < insight_generation_interval_hours
         THEN "skipped"
         ELSE "run"

\* run_hevy_sync, lines 146-151
HevyGate(st, t) ==
    IF st.last_hevy_sync # NoTime /\ (t - st.last_hevy_sync) < hevy_sync_interval_hours
    THEN "skipped"
    ELSE "run"

\* The days the Hevy account has workouts on.
HevyDays == {"d1"}

\* A store write made from a task, under LOCK, on the task's thread.
TaskWrites(store) ==
    LET r == FreeRef(heap)
    IN  /\ disk' = WriteStoreFile(store)
        /\ cache' = r
        /\ cacheAge' = 0
        /\ heap' = Collect([x \in DOMAIN heap \cup {r} |-> IF x = r THEN store ELSE heap[x]],
                           HeldRefs(r, sref))
        /\ UNCHANGED <<lock, pc, call, work, sref, snap, calls, issued, started>>

\* state = load_scheduler_state() at the head of run_insight_generation:
\* the loop's wake-up (force=False) or POST /scheduler/trigger-insights
CallInsightGeneration(p) ==
    /\ spc[p] = "idle"
    /\ runs < MaxRuns
    /\ runs' = runs + 1
    /\ TakeTurn(p)
    /\ \E force \in BOOLEAN :
        /\ p = "loop" => ~force
        /\ sforce' = [sforce EXCEPT ![p] = force]
    /\ sstate' = [sstate EXCEPT ![p] = LoadSchedulerState(sfile)]
    /\ sresult' = [sresult EXCEPT ![p] = NoResult]
    /\ spc' = [spc EXCEPT ![p] = "ig_gate"]
    /\ UNCHANGED <<sfile, now, storeVars, libVars>>

\* return {"status": "already_running", ...}
InsightAlreadyRunning(p) ==
    /\ spc[p] = "ig_gate"
    /\ InsightGate(sstate[p], sforce[p], now) = "already_running"
    /\ Returns(p, Result("already_running"), AfterInsight(p))
    /\ YieldTurn(p)
    /\ UNCHANGED <<sfile, now, runs, storeVars, libVars>>

\* return {"status": "skipped", ..., "next_run_in_hours": interval - hours_since}
InsightSkipped(p) ==
    /\ spc[p] = "ig_gate"
    /\ InsightGate(sstate[p], sforce[p], now) = "skipped"
    /\ Returns(p, [Result("skipped") EXCEPT !.next_run_in_hours =
                      insight_generation_interval_hours
                          - (now - sstate[p].last_insight_generation)],
               AfterInsight(p))
    /\ YieldTurn(p)
    /\ UNCHANGED <<sfile, now, runs, storeVars, libVars>>

\* get_recent_snapshots(days) at the head of generate_insights: a load_store
\* that finds snapshots or none (`if not snapshots: return []`).
GeneratorHasData == DOMAIN LoadStoreValue.snapshots # {}

\* state.is_generating = True; state.generation_error = None;
\* save_scheduler_state(state); then generate_insights runs up to its LLM
\* call, which it awaits only when there are snapshots.
InsightStarts(p) ==
    /\ spc[p] = "ig_gate"
    /\ InsightGate(sstate[p], sforce[p], now) = "run"
    /\ LET st == [sstate[p] EXCEPT !.is_generating = TRUE, !.generation_error = None]
       IN  /\ sstate' = [sstate EXCEPT ![p] = st]
           /\ sfile' = SaveSchedulerState(st)
    /\ cache' = LoadStoreRef
    /\ cacheAge' = IF CacheFresh THEN cacheAge ELSE 0
    /\ heap' = Collect(LoadStoreHeap, HeldRefs(LoadStoreRef, sref))
    /\ IF GeneratorHasData
       THEN spc' = [spc EXCEPT ![p] = "ig_generating"] /\ YieldTurn(p)
       ELSE spc' = [spc EXCEPT ![p] = "ig_nodata"] /\ UNCHANGED turn
    /\ UNCHANGED <<now, sforce, sresult, runs>>
    /\ UNCHANGED <<disk, lock, pc, call, work, sref, snap, nextId, calls, issued,
                   started, repeated, libVars>>

\* Lines 120-131 after generate_insights returned `returned` insights and
\* left `stored` insights in the store with add_insight.
InsightCompletes(p, stored, returned, failed) ==
    /\ sfile' = SaveSchedulerState([sstate[p] EXCEPT
                    !.is_generating = FALSE,
                    !.last_insight_generation = now,
                    !.insights_generated_today = @ + returned])
    /\ nextId' = nextId + stored
    /\ IF stored = 0 THEN UNCHANGED <<disk, heap, cache, cacheAge, lock, pc, call,
                                      work, sref, snap, calls, issued, started>>
       ELSE TaskWrites([ReadStoreFile(disk) EXCEPT !.insights =
                @ \o [i \in 1..stored |-> NewInsight(nextId + i)]])
    /\ Returns(p, [Result("success") EXCEPT !.generator_failed = failed], AfterInsight(p))
    /\ UNCHANGED <<now, runs, repeated, libVars>>

\* generate_insights returns the insights it stored (none when there are no
\* snapshots or the LLM names none).
InsightReturns(p) ==
    /\ spc[p] = "ig_generating"
    /\ OnServerLoop(p) => turn = None
    /\ \E stored \in 0..MaxBatch : InsightCompletes(p, stored, stored, FALSE)
    /\ UNCHANGED turn

\* generate_insights found no snapshots and returned [] without awaiting
\* anything; lines 120-131 follow at once.
InsightNoData(p) ==
    /\ spc[p] = "ig_nodata"
    /\ InsightCompletes(p, 0, 0, FALSE)
    /\ YieldTurn(p)

\* generate_insights fails: the LLM call is unsuccessful or raises, or the
\* output does not parse (nothing stored), or an item of the list is
\* malformed (the items before it are stored); it catches the failure and
\* returns [].
InsightGeneratorFails(p) ==
    /\ spc[p] = "ig_generating"
    /\ OnServerLoop(p) => turn = None
    /\ \E stored \in 0..MaxBatch : InsightCompletes(p, stored, 0, TRUE)
    /\ UNCHANGED turn

\* load_profile or generate_insights raises; lines 133-139
InsightRaises(p) ==
    /\ spc[p] = "ig_generating"
    /\ OnServerLoop(p) => turn = None
    /\ sfile' = SaveSchedulerState([sstate[p] EXCEPT !.is_generating = FALSE,
                                                    !.generation_error = "error"])
    /\ Returns(p, Result("error"), AfterInsight(p))
    /\ UNCHANGED <<now, turn, runs, storeVars, libVars>>

\* state = load_scheduler_state() at the head of run_hevy_sync: the loop
\* after its insight call, or POST /scheduler/trigger-hevy-sync
CallHevySync(p) ==
    /\ spc[p] = IF p = "loop" THEN "loop_hevy" ELSE "idle"
    /\ runs < MaxRuns
    /\ runs' = runs + 1
    /\ TakeTurn(p)
    /\ sstate' = [sstate EXCEPT ![p] = LoadSchedulerState(sfile)]
    /\ sresult' = [sresult EXCEPT ![p] = NoResult]
    /\ spc' = [spc EXCEPT ![p] = "hs_gate"]
    /\ UNCHANGED <<sfile, now, sforce, storeVars, libVars>>

\* return {"status": "skipped", "hours_since_last": hours_since}
HevySkipped(p) ==
    /\ spc[p] = "hs_gate"
    /\ HevyGate(sstate[p], now) = "skipped"
    /\ Returns(p, [Result("skipped") EXCEPT
                      !.hours_since_last = now - sstate[p].last_hevy_sync], "idle")
    /\ YieldTurn(p)
    /\ UNCHANGED <<sfile, now, runs, storeVars, libVars>>

\* workouts = await hevy.get_all_workouts()
HevyFetches(p) ==
    /\ spc[p] = "hs_gate"
    /\ HevyGate(sstate[p], now) = "run"
    /\ spc' = [spc EXCEPT ![p] = "hs_fetching"]
    /\ YieldTurn(p)
    /\ UNCHANGED <<sfile, now, sstate, sforce, sresult, runs, storeVars, libVars>>

\* The fetch returns workouts of one day: update_workout, then
\* state.last_hevy_sync = now; save_scheduler_state(state)
HevySucceeds(p) ==
    /\ spc[p] = "hs_fetching"
    /\ OnServerLoop(p) => turn = None
    /\ \E d \in HevyDays, v \in Vals :
           /\ TaskWrites(AtomicUpdateSnapshot(ReadStoreFile(disk), d, "workout", v,
                                              SourceTag("workout")))
           /\ repeated' = (repeated \/ Repeats(ReadStoreFile(disk), UpdateCall(d, "workout", v)))
    /\ sfile' = SaveSchedulerState([sstate[p] EXCEPT !.last_hevy_sync = now])
    /\ Returns(p, Result("success"), "idle")
    /\ UNCHANGED <<now, turn, runs, nextId, libVars>>

\* if not workouts: return {"status": "no_workouts"}
HevyNoWorkouts(p) ==
    /\ spc[p] = "hs_fetching"
    /\ OnServerLoop(p) => turn = None
    /\ Returns(p, Result("no_workouts"), "idle")
    /\ UNCHANGED <<sfile, now, turn, runs, storeVars, libVars>>

\* The fetch raises; lines 185-187
HevyRaises(p) ==
    /\ spc[p] = "hs_fetching"
    /\ OnServerLoop(p) => turn = None
    /\ Returns(p, Result("error"), "idle")
    /\ UNCHANGED <<sfile, now, turn, runs, storeVars, libVars>>

\* An hour passes; the store's cache entry is long stale by then.
HourPasses ==
    /\ now < MaxClock
    /\ now' = now + 1
    /\ cacheAge' = IF cache = None THEN cacheAge ELSE CACHE_TTL_SECONDS
    /\ UNCHANGED <<sfile, spc, sstate, sforce, sresult, turn, runs>>
    /\ UNCHANGED <<disk, heap, cache, lock, pc, call, work, sref, snap, nextId,
                   calls, issued, started, repeated, libVars>>

\* The process dies with a task under way and is started again: the files
\* stay, everything in memory is new.
Restart ==
    /\ \E p \in Procs : spc[p] # "idle"
    /\ spc' = [p \in Procs |-> "idle"]
    /\ sstate' = [p \in Procs |-> DefaultState]
    /\ sforce' = [p \in Procs |-> FALSE]
    /\ sresult' = [p \in Procs |-> NoResult]
    /\ turn' = None
    /\ cache' = None
    /\ cacheAge' = 0
    /\ heap' = [r \in {} |-> EmptyStore]
    /\ UNCHANGED <<sfile, now, runs>>
    /\ UNCHANGED <<disk, lock, pc, call, work, sref, snap, nextId, calls, issued, started, repeated, libVars>>

\* The steps of the two tasks and of the clock.
NextTasks ==
    \/ \E p \in Procs : CallInsightGeneration(p)
    \/ \E p \in Procs : InsightAlreadyRunning(p)
    \/ \E p \in Procs : InsightSkipped(p)
    \/ \E p \in Procs : InsightStarts(p)
    \/ \E p \in Procs : InsightReturns(p)
    \/ \E p \in Procs : InsightNoData(p)
    \/ \E p \in Procs : InsightGeneratorFails(p)
    \/ \E p \in Procs : InsightRaises(p)
    \/ \E p \in Procs : CallHevySync(p)
    \/ \E p \in Procs : HevySkipped(p)
    \/ \E p \in Procs : HevyFetches(p)
    \/ \E p \in Procs : HevySucceeds(p)
    \/ \E p \in Procs : HevyNoWorkouts(p)
    \/ \E p \in Procs : HevyRaises(p)
    \/ HourPasses

NextSched ==
    \/ NextTasks
    \/ Restart

\* ------------------------------------------------------ BackgroundScheduler.stop
\* Where the loop's coroutine is suspended in an await: asyncio.sleep, the
\* generator's LLM call, the Hevy fetch.
Suspended == {"idle", "ig_generating", "hs_fetching"}

\* stop(): self._running = False and call_soon_threadsafe(self._loop.stop).
\* The event loop stops once the coroutine is suspended, run_until_complete
\* raises RuntimeError because _scheduler_loop() is not done, _run_loop
\* catches it and closes the loop: the coroutine is never resumed and its
\* locals are gone. Requests run on the server's loop and go on.
Stop ==
    /\ spc["loop"] \in Suspended
    /\ spc' = [spc EXCEPT !["loop"] = "closed"]
    /\ sstate' = [sstate EXCEPT !["loop"] = DefaultState]
    /\ sforce' = [sforce EXCEPT !["loop"] = FALSE]
    /\ UNCHANGED <<sfile, now, sresult, turn, runs, storeVars, libVars>>

NextStop ==
    \/ NextTasks
    \/ Stop

\* What the loop's coroutine does when the call it awaits is over; the LLM
\* call and the Hevy request both end, by an answer, an error or a timeout.
LoopResumes ==
    \/ InsightReturns("loop")
    \/ InsightGeneratorFails("loop")
    \/ InsightRaises("loop")
    \/ HevySucceeds("loop")
    \/ HevyNoWorkouts("loop")
    \/ HevyRaises("loop")

\* ------------------------------------------------ scheduler state I/O fails
\* What a failed save_scheduler_state leaves: open(..., 'w') raises and the
\* file is as it was, or json.dump stops part-way and the file is truncated.
CorruptStateFile == [kind |-> "corrupt", state |-> DefaultState]

FailedStateWrites == {sfile, CorruptStateFile}

\* Where a coroutine goes when run_insight_generation raises: the loop's
\* `except Exception` (lines 297-298) leads straight to the sleep, a request
\* fails.
AfterException(p) == "idle"

\* load_scheduler_state() at line 77 raises (mkdir or open fails with an
\* OSError, which its except clause does not name).
InsightLoadRaises(p) ==
    /\ spc[p] = "idle"
    /\ runs < MaxRuns
    /\ runs' = runs + 1
    /\ OnServerLoop(p) => turn = None
    /\ Returns(p, Result("raised"), AfterException(p))
    /\ UNCHANGED <<sfile, now, turn, storeVars, libVars>>

\* save_scheduler_state(state) at line 97 raises, outside the try block.
InsightSaveRaises(p) ==
    /\ spc[p] = "ig_gate"
    /\ InsightGate(sstate[p], sforce[p], now) = "run"
    /\ sfile' \in FailedStateWrites
    /\ Returns(p, Result("raised"), AfterException(p))
    /\ YieldTurn(p)
    /\ UNCHANGED <<now, runs, storeVars, libVars>>

NextSchedFaults ==
    \/ NextSched
    \/ \E p \in Procs : InsightLoadRaises(p)
    \/ \E p \in Procs : InsightSaveRaises(p)

\* ============================================================ pure functions
\* The rest of the server while one function is looked at on its own: no
\* store file yet, nothing cached, the scheduler idle.
Quiet ==
    /\ disk = [kind |-> "missing", store |-> EmptyStore]
    /\ InitObjects
    /\ InitSched
    /\ InitExercises
    /\ InitSessions

\* ------------------------------------------------- the fields of an insight
\* What the LLM can put into an item of its "insights" list: a category
\* and a tier of its choosing, or neither.
ItemCategories == {"correlation", "trend", "nudge", "pattern"}
ItemTiers == {0, 1, 5, 9}
LlmItems ==
    {[k \in {} |-> 0]}
        \cup {[category |-> c] : c \in ItemCategories}
        \cup {[tier |-> n] : n \in ItemTiers}
        \cup {[category |-> c, tier |-> n] : c \in ItemCategories, n \in ItemTiers}

\* The `action` of POST /insights/{id}/engage, and discuss_insight's own.
EngageActions == {"viewed", "tapped", "dismissed", "acted", "discussed", "liked"}

\* data.get(key, default)
Get(data, key, default) == IF key \in DOMAIN data THEN data[key] ELSE default

\* Insight(id=..., category=data.get("category", "nudge"),
\*         tier=data.get("tier", 3), ...), as add_insight stores it
InsightFromItem(data) ==
    [id |-> 1, category |-> Get(data, "category", "nudge"), tier |-> Get(data, "tier", 3),
     engagement |-> None, dismissed_at |-> FALSE, surfaced_at |-> FALSE]

InitInsightFields ==
    /\ fnArgs \in [item : LlmItems, action : EngageActions]
    /\ fnResult = NotCalled
    /\ Quiet

\* generate_insights builds the insight of an item and stores it.
StoreGenerated ==
    /\ fnResult = NotCalled
    /\ fnResult' = Returned(InsightFromItem(fnArgs.item))
    /\ UNCHANGED <<fnArgs, storeVars, schedVars, exVars, sessVars>>

\* update_insight_engagement(id, action) on the stored insight
EngageStored ==
    /\ fnResult # NotCalled
    /\ fnResult[1].engagement = None
    /\ fnResult' = Returned(Engaged(fnResult[1], fnArgs.action))
    /\ UNCHANGED <<fnArgs, storeVars, schedVars, exVars, sessVars>>

NextInsightFields ==
    \/ StoreGenerated
    \/ EngageStored

\* An insight is generated and then engaged with.
SpecInsightFields == InitInsightFields /\ [][NextInsightFields]_vars

\* ------------------------------------------------------------ compute_ema
\* A Python float is taken as the exact rational <<numerator, denominator>>
\* with a positive denominator; the rounding of a float's last bit is left
\* out.
RECURSIVE Gcd(_, _)
Gcd(a, b) == IF b = 0 THEN a ELSE Gcd(b, a % b)

Abs(n) == IF n < 0 THEN -n ELSE n

Reduce(q) ==
    LET g == Gcd(Abs(q[1]), q[2])
    IN  <<q[1] \div g, q[2] \div g>>

Rat(n) == <<n, 1>>
RAdd(a, b) == Reduce(<<a[1] * b[2] + b[1] * a[2], a[2] * b[2]>>)
RSub(a, b) == Reduce(<<a[1] * b[2] - b[1] * a[2], a[2] * b[2]>>)
RMul(a, b) == Reduce(<<a[1] * b[1], a[2] * b[2]>>)

\* k = 2.0 / (period + 1), with a name that says what the variant leaves out
EmaFactorNoPlusOne(period) == <<2, period>>

\* k = 2.0 / (period + 1)
EmaFactor(period) == Reduce(<<2, period + 1>>)

\* ema = (value * k) + (ema * (1 - k))
EmaStep(ema, value, k) == RAdd(RMul(Rat(value), k), RMul(ema, RSub(Rat(1), k)))

\* for value in values: ema = ...; ema_values.append(ema), the first n
\* rounds of it, with ema = values[0] before the first
RECURSIVE EmaAfter(_, _, _)
EmaAfter(values, k, n) ==
    IF n = 0 THEN Rat(values[1])
    ELSE EmaStep(EmaAfter(values, k, n - 1), values[n], k)

compute_ema(values, period) ==
    IF values = <<>> \/ period <= 0 THEN values
    ELSE [i \in 1..Len(values) |-> EmaAfter(values, EmaFactor(period), i)]

\* The readings of the calls looked at, and their periods.
Readings == {10, 15, 20}
Periods == {-1, 0, 1, 2, 9}

SeqsUpTo(S, n) == UNION {[1..m -> S] : m \in 0..n}

InitEma ==
    /\ fnArgs \in [values : SeqsUpTo(Readings, MaxReadings), period : Periods]
    /\ fnResult = NotCalled
    /\ Quiet

CallComputeEma ==
    /\ fnResult = NotCalled
    /\ fnResult' = Returned(compute_ema(fnArgs.values, fnArgs.period))
    /\ UNCHANGED <<fnArgs, storeVars, schedVars, exVars, sessVars>>

\* compute_ema called once on a list of readings.
SpecEma == InitEma /\ [][CallComputeEma]_vars

\* ------------------------------------------------------- exercise trends
\* The dates of the performances looked at, as days, and their e1RM values.
PerfDays == {0, 1, 2, 7, 14, 15}
PerfE1rms == {100, 110}

\* history["performances"] inside the time window: ascending by date, one
\* performance a day (upsert_performance keeps it so).
RECURSIVE SortedDays(_)
SortedDays(S) ==
    IF S = {} THEN <<>>
    ELSE LET d == CHOOSE x \in S : \A y \in S : x <= y
         IN  <<d>> \o SortedDays(S \ {d})

PerformanceLists ==
    UNION {{[i \in 1..Len(SortedDays(S)) |-> [date |-> SortedDays(S)[i], e1rm |-> f[SortedDays(S)[i]]]] :
                f \in [S -> PerfE1rms]} : S \in SUBSET PerfDays}

RECURSIVE SumTo(_, _)
SumTo(f, n) == IF n = 0 THEN 0 ELSE f[n] + SumTo(f, n - 1)

\* (datetime.strptime(p["date"], ...) - first_date).days
XValues(performances) ==
    [i \in 1..Len(performances) |-> performances[i].date - performances[1].date]

YValues(performances) == [i \in 1..Len(performances) |-> performances[i].e1rm]

\* numerator and denominator of the least-squares slope, both times n
SlopeNumerator(xs, ys) ==
    LET n == Len(xs)
    IN  n * SumTo([i \in 1..n |-> xs[i] * ys[i]], n) - SumTo(xs, n) * SumTo(ys, n)

SlopeDenominator(xs) ==
    LET n == Len(xs)
    IN  n * SumTo([i \in 1..n |-> xs[i] * xs[i]], n) - SumTo(xs, n) * SumTo(xs, n)

\* round(q, 1), in tenths: to the nearest tenth, a tie to the even one
Round1(q) ==
    LET n == 10 * q[1]
        d == q[2]
        lo == IF n >= 0 THEN n \div d ELSE -((-n + d - 1) \div d)
        twice == 2 * (n - lo * d)
    IN  IF twice < d THEN lo
        ELSE IF twice > d THEN lo + 1
        ELSE IF lo % 2 = 0 THEN lo ELSE lo + 1

\* round(slope_per_day * 30, 1)
PerMonth(xs, ys) == Round1(<<30 * SlopeNumerator(xs, ys), SlopeDenominator(xs)>>)

\* None and a float, as a function returns them
Unknown == <<>>
Known(v) == <<v>>

\* _calculate_improvement(performances)
calculate_improvement(performances) ==
    IF Len(performances) < 5 THEN Unknown
    ELSE IF performances[Len(performances)].date - performances[1].date < 14 THEN Unknown
    ELSE IF SlopeDenominator(XValues(performances)) = 0 THEN Unknown
    ELSE Known(PerMonth(XValues(performances), YValues(performances)))

\* get_exercise_chart_data: the "trend" of the returned dict
chart_trend(performances) ==
    IF Len(performances) >= 3 /\ SlopeDenominator(XValues(performances)) > 0
    THEN Known(PerMonth(XValues(performances), YValues(performances)))
    ELSE Unknown

InitTrend ==
    /\ fnArgs \in [performances : PerformanceLists,
                   fn : {"get_top_exercises", "get_exercise_chart_data"}]
    /\ fnResult = NotCalled
    /\ Quiet

\* get_top_exercises: improvement = _calculate_improvement(performances)
CallTopExercises ==
    /\ fnResult = NotCalled
    /\ fnArgs.fn = "get_top_exercises"
    /\ fnResult' = Returned(calculate_improvement(fnArgs.performances))
    /\ UNCHANGED <<fnArgs, storeVars, schedVars, exVars, sessVars>>

CallChartData ==
    /\ fnResult = NotCalled
    /\ fnArgs.fn = "get_exercise_chart_data"
    /\ fnResult' = Returned(chart_trend(fnArgs.performances))
    /\ UNCHANGED <<fnArgs, storeVars, schedVars, exVars, sessVars>>

NextTrend ==
    \/ CallTopExercises
    \/ CallChartData

\* One exercise's trend asked for, by either function.
SpecTrend == InitTrend /\ [][NextTrend]_vars

\* ------------------------------------------------ compute_body_comp_trends
\* The weight_lbs (or body_fat_pct) of the snapshots get_recent_snapshots
\* returns, oldest first; 0 is a day without a reading.
DayReadings == {0, 180, 190, 200}

\* ("monthly", 30, 10) and ("yearly", 365, 21): the EMA periods
TrendPeriods == {10, 21}

\* `change < -0.5` / `change > 0.5` for weight, 0.3 for body fat, as rationals
TrendThreshold(metric) == IF metric = "weight" THEN <<1, 2>> ELSE <<3, 10>>

Reversed(s) == [i \in 1..Len(s) |-> s[Len(s) + 1 - i]]

\* [... for s in ... if s.health.weight_lbs]
Truthy(s) == SelectSeq(s, LAMBDA v : v # 0)

\* weights = [... for s in reversed(snapshots) if s.health.weight_lbs]
ReadingsForEma(snapshots) == Truthy(Reversed(snapshots))

\* "losing" if change < -t else ("gaining" if change > t else "stable")
Direction(change, t) ==
    IF change[1] * t[2] < -(t[1] * change[2]) THEN "losing"
    ELSE IF change[1] * t[2] > t[1] * change[2] THEN "gaining"
    ELSE "stable"

\* One of the two blocks of the loop body: the "weight" or the "body_fat"
\* entry of period_trends, or nothing below 3 readings.
body_comp_trend(snapshots, metric, ema_period) ==
    LET values == ReadingsForEma(snapshots)
        ema == compute_ema(values, ema_period)
        current_ema == ema[Len(ema)]
        start_ema == IF Len(ema) > ema_period THEN ema[1] ELSE Rat(values[1])
        change == RSub(current_ema, start_ema)
    IN  IF Len(values) >= 3
        THEN Known([current |-> Round1(current_ema), change |-> Round1(change),
                    direction |-> Direction(change, TrendThreshold(metric)),
                    readings |-> Len(values)])
        ELSE Unknown

InitBodyComp ==
    /\ fnArgs \in [snapshots : SeqsUpTo(DayReadings, MaxReadings),
                   metric : {"weight", "body_fat"}, ema_period : TrendPeriods]
    /\ fnResult = NotCalled
    /\ Quiet

CallBodyCompTrends ==
    /\ fnResult = NotCalled
    /\ fnResult' = Returned(body_comp_trend(fnArgs.snapshots, fnArgs.metric, fnArgs.ema_period))
    /\ UNCHANGED <<fnArgs, storeVars, schedVars, exVars, sessVars>>

\* compute_body_comp_trends on the snapshots of one window.
SpecBodyComp == InitBodyComp /\ [][CallBodyCompTrends]_vars

\* ------------------------------------------ get_snapshots_range / recent
\* date.isoformat() of a day and datetime.strptime(s, "%Y-%m-%d").date() of
\* such a string; days are counted from the first day looked at.
IsoFormat(day) == <<"date", day>>
ParseDate(s) == s[2]

\* date.today()
Today == MaxDay

StoredDaySets == SUBSET {IsoFormat(d) : d \in 0..MaxDay}

\* current = start; while current <= end: ...; current += timedelta(days=1)
RECURSIVE WalkDays(_, _, _)
WalkDays(snapshots, current, end) ==
    IF current > end THEN <<>>
    ELSE (IF IsoFormat(current) \in snapshots THEN <<IsoFormat(current)>> ELSE <<>>)
             \o WalkDays(snapshots, current + 1, end)

\* get_snapshots_range(start_date, end_date) on a store with these snapshots;
\* a returned snapshot is named by its date
get_snapshots_range(snapshots, start_date, end_date) ==
    WalkDays(snapshots, ParseDate(start_date), ParseDate(end_date))

\* get_recent_snapshots(days)
get_recent_snapshots(snapshots, days) ==
    get_snapshots_range(snapshots, IsoFormat(Today - days), IsoFormat(Today))

InitRange ==
    /\ fnArgs \in
          [fn : {"get_snapshots_range"}, snapshots : StoredDaySets,
           start_date : {IsoFormat(d) : d \in 0..MaxDay},
           end_date : {IsoFormat(d) : d \in 0..MaxDay}]
          \cup [fn : {"get_recent_snapshots"}, snapshots : StoredDaySets, days : 0..MaxDay]
    /\ fnResult = NotCalled
    /\ Quiet

CallSnapshotsRange ==
    /\ fnResult = NotCalled
    /\ fnArgs.fn = "get_snapshots_range"
    /\ fnResult' = Returned(get_snapshots_range(fnArgs.snapshots, fnArgs.start_date,
                                                fnArgs.end_date))
    /\ UNCHANGED <<fnArgs, storeVars, schedVars, exVars, sessVars>>

CallRecentSnapshots ==
    /\ fnResult = NotCalled
    /\ fnArgs.fn = "get_recent_snapshots"
    /\ fnResult' = Returned(get_recent_snapshots(fnArgs.snapshots, fnArgs.days))
    /\ UNCHANGED <<fnArgs, storeVars, schedVars, exVars, sessVars>>

NextRange ==
    \/ CallSnapshotsRange
    \/ CallRecentSnapshots

\* One range query or one recent-days query on a store.
SpecRange == InitRange /\ [][NextRange]_vars

\* ----------------------------------------------------- upsert_performance
ExerciseNames == {"squat", "bench"}
\* ExercisePerformance: date, best_reps and e1rm of the day's best set
Performances == [date : 1..2, best_reps : {5, 8}, e1rm : {100, 110}]

\* {"performances": [], "current_pr": None, "workout_count": 0}
NewHistory == [performances |-> <<>>, current_pr |-> <<>>, workout_count |-> 0]

\* for i, p in enumerate(performances): if p["date"] == perf.date: ...; break
ExistingIdx(performances, perf) ==
    LET hits == {i \in 1..Len(performances) : performances[i].date = perf.date}
    IN  IF hits = {} THEN 0 ELSE CHOOSE i \in hits : \A j \in hits : i <= j

\* A variant that takes the new performance whatever its e1RM.
BetterAlways(perf, old) == TRUE

\* if perf.e1rm > performances[existing_idx]["e1rm"]
Better(perf, old) == perf.e1rm > old.e1rm

\* list.sort(key=lambda x: x["date"]): stable, ascending
RECURSIVE SortByDate(_)
InsertByDate(sorted, p) ==
    LET after == {i \in 1..Len(sorted) : sorted[i].date <= p.date}
        k == IF after = {} THEN 0 ELSE CHOOSE i \in after : \A j \in after : j <= i
    IN  SubSeq(sorted, 1, k) \o <<p>> \o SubSeq(sorted, k + 1, Len(sorted))

SortByDate(s) ==
    IF s = <<>> THEN <<>>
    ELSE InsertByDate(SortByDate(SubSeq(s, 1, Len(s) - 1)), s[Len(s)])

\* max(performances, key=lambda x: x["e1rm"]): the first of the highest
MaxByE1rm(performances) ==
    LET top == {i \in 1..Len(performances) :
                    \A j \in 1..Len(performances) : performances[j].e1rm <= performances[i].e1rm}
    IN  performances[CHOOSE i \in top : \A j \in top : i <= j]

\* history["current_pr"] = {"weight_lbs", "reps", "date", "e1rm"} of the best
CurrentPr(performances) ==
    IF performances = <<>> THEN <<>>
    ELSE LET best == MaxByE1rm(performances)
         IN  <<[reps |-> best.best_reps, date |-> best.date, e1rm |-> best.e1rm]>>

\* The history of one exercise after upsert_performance's modify step.
UpsertInto(history, perf) ==
    LET idx == ExistingIdx(history.performances, perf)
        kept == IF idx # 0
                THEN IF Better(perf, history.performances[idx])
                     THEN [history.performances EXCEPT ![idx] = perf]
                     ELSE history.performances
                ELSE Append(history.performances, perf)
        sorted == SortByDate(kept)
    IN  [performances |-> sorted,
         current_pr |-> CurrentPr(sorted),
         workout_count |-> IF idx # 0 THEN history.workout_count
                           ELSE history.workout_count + 1]

\* store.exercises after upsert_performance(exercise_name, perf)
upsert_performance(exs, exercise_name, perf) ==
    LET history == IF exercise_name \in DOMAIN exs THEN exs[exercise_name] ELSE NewHistory
    IN  [n \in DOMAIN exs \cup {exercise_name} |->
            IF n = exercise_name THEN UpsertInto(history, perf) ELSE exs[n]]

\* One call, from `with LOCK:` to the write of the file.
UpsertPerformance(name, perf) ==
    /\ Cardinality(upserted) < MaxUpserts
    /\ [name |-> name, perf |-> perf] \notin upserted
    /\ exercises' = upsert_performance(exercises, name, perf)
    /\ upserted' = upserted \cup {[name |-> name, perf |-> perf]}
    /\ UNCHANGED <<fnArgs, fnResult, storeVars, schedVars, sessVars>>

InitUpserts ==
    /\ InitFn
    /\ Quiet

NextUpserts == \E name \in ExerciseNames, perf \in Performances : UpsertPerformance(name, perf)

\* Any sequence of upsert_performance calls on an empty exercise store.
SpecUpserts == InitUpserts /\ [][NextUpserts]_vars

\* ------------------------------------------------------------ sessions.py
\* Session(session_id=str(uuid.uuid4()), ..., message_count=1): session ids
\* are numbered in the order they are drawn; no two are equal.
NewSession(next) == [session_id |-> next + 1, message_count |-> 1]

\* What get_or_create_session returns, and stores, for the sessions it loaded.
SessionFor(loaded, next) ==
    IF loaded # <<>>
    THEN [loaded[1] EXCEPT !.message_count = @ + 1]
    ELSE NewSession(next)

\* get_or_create_session: sessions = _load_sessions()
SessLoad(t) ==
    /\ sessPc[t] = "idle"
    /\ sessLog.started < MaxSessionCalls
    /\ sessPc' = [sessPc EXCEPT ![t] = "loaded"]
    /\ sessLocal' = [sessLocal EXCEPT ![t] = sessFile]
    /\ sessLog' = [sessLog EXCEPT !.started = @ + 1]
    /\ UNCHANGED <<sessFile, sessRet, sessNext, claude>>
    /\ UNCHANGED <<fnArgs, fnResult, storeVars, schedVars, exVars>>

\* get_or_create_session: the update or the new Session, _save_sessions, return
SessSave(t) ==
    /\ sessPc[t] = "loaded"
    /\ LET session == SessionFor(sessLocal[t], sessNext)
       IN  /\ sessFile' = <<session>>
           /\ sessRet' = [sessRet EXCEPT ![t] = <<session>>]
           /\ sessNext' = IF sessLocal[t] = <<>> THEN sessNext + 1 ELSE sessNext
           /\ sessLog' = [sessLog EXCEPT !.ids = @ \cup {session.session_id},
                                         !.calls = @ + 1]
    /\ sessPc' = [sessPc EXCEPT ![t] = "idle"]
    /\ sessLocal' = [sessLocal EXCEPT ![t] = <<>>]
    /\ UNCHANGED claude
    /\ UNCHANGED <<fnArgs, fnResult, storeVars, schedVars, exVars>>

\* clear_session, while no get_or_create_session call is under way: the
\* calls counted from here on are the calls after this clear.
ClearSession(t) ==
    /\ \A u \in SessThreads : sessPc[u] = "idle"
    /\ sessFile # <<>>
    /\ sessFile' = <<>>
    /\ sessRet' = [sessRet EXCEPT ![t] = <<>>]
    /\ sessLog' = [sessLog EXCEPT !.ids = {}, !.calls = 0]
    /\ UNCHANGED <<sessPc, sessLocal, sessNext, claude>>
    /\ UNCHANGED <<fnArgs, fnResult, storeVars, schedVars, exVars>>

\* get_session_info: sessions.get(key) of what _load_sessions gives
GetSessionInfo(t) ==
    /\ sessPc[t] = "idle"
    /\ sessRet[t] # sessFile
    /\ sessRet' = [sessRet EXCEPT ![t] = sessFile]
    /\ UNCHANGED <<sessFile, sessPc, sessLocal, sessNext, sessLog, claude>>
    /\ UNCHANGED <<fnArgs, fnResult, storeVars, schedVars, exVars>>

InitSessionCalls ==
    /\ InitFn
    /\ Quiet

NextSessions ==
    \E t \in SessThreads :
        \/ SessLoad(t)
        \/ SessSave(t)
        \/ ClearSession(t)
        \/ GetSessionInfo(t)

\* The server's event loop and the scheduler's thread calling sessions.py.
SpecSessions == InitSessionCalls /\ [][NextSessions]_vars

\* ------------------------------------------------------------ call_claude
\* session_id=None
NoSession == 0

\* The two get_or_create_session calls of call_claude run on one event loop
\* with no await inside: each is one step.
GetOrCreateSession ==
    /\ sessFile' = <<SessionFor(sessFile, sessNext)>>
    /\ sessNext' = IF sessFile = <<>> THEN sessNext + 1 ELSE sessNext
    /\ sessLog' = [ids |-> sessLog.ids \cup {SessionFor(sessFile, sessNext).session_id},
                   calls |-> sessLog.calls + 1,
                   started |-> sessLog.started + 1]

\* sessions.clear_session(provider="claude"), then the nested call's
\* get_or_create_session, which finds no entry.
ClearAndCreateSession ==
    /\ sessFile' = <<NewSession(sessNext)>>
    /\ sessNext' = sessNext + 1
    /\ sessLog' = [ids |-> {NewSession(sessNext).session_id},
                   calls |-> 1,
                   started |-> sessLog.started + 1]

\* A caller awaits call_claude(prompt, system_prompt, use_session=use_session).
ClaudeCall(use_session) ==
    /\ claude.pc \in {"idle", "returned"}
    /\ claude.calls < MaxClaudeCalls
    /\ IF use_session
       THEN /\ GetOrCreateSession
            /\ claude' = [pc |-> "cli", depth |-> 1, retries |-> 0,
                          session_id |-> SessionFor(sessFile, sessNext).session_id,
                          result |-> "none", calls |-> claude.calls + 1]
       ELSE /\ claude' = [pc |-> "cli", depth |-> 1, retries |-> 0,
                          session_id |-> NoSession,
                          result |-> "none", calls |-> claude.calls + 1]
            /\ UNCHANGED <<sessFile, sessNext, sessLog>>
    /\ UNCHANGED <<sessPc, sessLocal, sessRet>>
    /\ UNCHANGED <<fnArgs, fnResult, storeVars, schedVars, exVars>>

\* The innermost call returns an LLMResponse and every call around it
\* returns that response (`return await call_claude(...)`).
ClaudeReturns(result) ==
    /\ claude' = [claude EXCEPT !.pc = "returned", !.result = result]
    /\ UNCHANGED <<sessFile, sessPc, sessLocal, sessRet, sessNext, sessLog>>
    /\ UNCHANGED <<fnArgs, fnResult, storeVars, schedVars, exVars>>

\* returncode == 0: LLMResponse(success=True)
CliSucceeds ==
    /\ claude.pc = "cli"
    /\ ClaudeReturns("success")

\* returncode != 0 with another message: LLMResponse(success=False, error=error_msg)
CliFails ==
    /\ claude.pc = "cli"
    /\ ClaudeReturns("error")

\* except asyncio.TimeoutError: LLMResponse(success=False, error="Timeout ...")
CliTimesOut ==
    /\ claude.pc = "cli"
    /\ ClaudeReturns("timeout")

\* returncode != 0, "session" and "not found" in the message: clear the
\* session and call call_claude again, one call deeper, with a new session.
\* Nothing counts the retries.
CliSessionNotFound ==
    /\ claude.pc = "cli"
    /\ claude.depth < RecursionLimit
    /\ ClearAndCreateSession
    /\ claude' = [claude EXCEPT !.depth = @ + 1, !.retries = @ + 1,
                                !.session_id = NewSession(sessNext).session_id]
    /\ UNCHANGED <<sessPc, sessLocal, sessRet>>
    /\ UNCHANGED <<fnArgs, fnResult, storeVars, schedVars, exVars>>

\* The same answer when the interpreter allows no deeper call: clear_session
\* or the nested call raises RecursionError, which an `except Exception` of
\* the calls under way turns into LLMResponse(success=False, error=str(e)).
CliSessionNotFoundAtLimit ==
    /\ claude.pc = "cli"
    /\ claude.depth = RecursionLimit
    /\ \E cleared \in BOOLEAN :
           IF cleared
           THEN /\ sessFile' = <<>>
                /\ sessLog' = [sessLog EXCEPT !.ids = {}, !.calls = 0]
           ELSE UNCHANGED <<sessFile, sessLog>>
    /\ claude' = [claude EXCEPT !.pc = "returned", !.result = "RecursionError"]
    /\ UNCHANGED <<sessPc, sessLocal, sessRet, sessNext>>
    /\ UNCHANGED <<fnArgs, fnResult, storeVars, schedVars, exVars>>

\* sessions.json is missing, or holds the session of earlier conversations.
InitClaude ==
    /\ InitFn
    /\ disk = [kind |-> "missing", store |-> EmptyStore]
    /\ InitObjects
    /\ InitSched
    /\ InitExercises
    /\ sessPc = [t \in SessThreads |-> "idle"]
    /\ sessLocal = [t \in SessThreads |-> <<>>]
    /\ sessRet = [t \in SessThreads |-> <<>>]
    /\ \/ /\ sessFile = <<>>
          /\ sessNext = 0
       \/ /\ sessFile = <<[session_id |-> 1, message_count |-> 1]>>
          /\ sessNext = 1
    /\ sessLog = [ids |-> {}, calls |-> 0, started |-> 0]
    /\ claude = [pc |-> "idle", depth |-> 0, session_id |-> NoSession, retries |-> 0,
                 result |-> "none", calls |-> 0]

NextClaude ==
    \/ \E use_session \in BOOLEAN : ClaudeCall(use_session)
    \/ CliSucceeds
    \/ CliFails
    \/ CliTimesOut
    \/ CliSessionNotFound
    \/ CliSessionNotFoundAtLimit

\* call_claude on the server's event loop, with a CLI that answers as it likes.
SpecClaude == InitClaude /\ [][NextClaude]_vars

\* ------------------------------------------------- insights and their readers
\* add_insight, update_insight_engagement and the snapshot updates of all
\* threads, with the reads that refresh the cache between them.
NextInsights ==
    \/ \E t \in Threads : BeginUpdate(t)
    \/ \E t \in Threads : EndUpdate(t)
    \/ \E t \in Threads : BeginAddInsight(t)
    \/ \E t \in Threads : EndAddInsight(t)
    \/ \E t \in Threads : Reload(t)
    \/ \E t \in Threads : EngageLoad(t)
    \/ \E t \in Threads : EngageMutate(t)
    \/ \E t \in Threads : SaveStore(t)
    \/ TtlElapses

SpecInsights == Init /\ [][NextInsights]_vars

\* ------------------------------------------------------------ get_insights
\* The insight dicts of store.insights: importance and confidence in tenths.
Scores == {<<5, 10>>, <<10, 5>>, <<10, 10>>}
StoredInsights ==
    {[category |-> c, tier |-> n, importance |-> s[1], confidence |-> s[2],
      created_at |-> at, dismissed_at |-> d] :
        c \in {"trend", "nudge"}, n \in {1, 2}, s \in Scores, at \in {1, 2}, d \in BOOLEAN}

\* The list with each dict's "id": its place in store.insights.
WithIds(insights) ==
    [i \in 1..Len(insights) |->
        [id |-> i, category |-> insights[i].category, tier |-> insights[i].tier,
         importance |-> insights[i].importance, confidence |-> insights[i].confidence,
         created_at |-> insights[i].created_at, dismissed_at |-> insights[i].dismissed_at]]

\* `if category and ...`: None and "" are both written ""
CategoryFilters == {"", "trend", "nudge"}
\* `if tier and ...`: None and 0 are both written 0
TierFilters == {0, 1, 2}
Limits == {-1, 0, 1, 2}

\* The three `continue` tests of the loop.
Kept(data, category, tier, include_dismissed) ==
    /\ ~(category # "" /\ data.category # category)
    /\ ~(tier # 0 /\ data.tier # tier)
    /\ ~(~include_dismissed /\ data.dismissed_at)

\* key=lambda i: (i.importance * i.confidence, i.created_at)
SortKey(i) == <<i.importance * i.confidence, i.created_at>>

\* Tuple comparison: key(a) >= key(b)
KeyGeq(a, b) ==
    \/ SortKey(a)[1] > SortKey(b)[1]
    \/ SortKey(a)[1] = SortKey(b)[1] /\ SortKey(a)[2] >= SortKey(b)[2]

\* insights.sort(key=..., reverse=True): descending, equal keys stay in order
RECURSIVE SortInsights(_)
InsertInsight(sorted, p) ==
    LET before == {i \in 1..Len(sorted) : KeyGeq(sorted[i], p)}
        k == IF before = {} THEN 0 ELSE CHOOSE i \in before : \A j \in before : j <= i
    IN  SubSeq(sorted, 1, k) \o <<p>> \o SubSeq(sorted, k + 1, Len(sorted))

SortInsights(s) ==
    IF s = <<>> THEN <<>>
    ELSE InsertInsight(SortInsights(SubSeq(s, 1, Len(s) - 1)), s[Len(s)])

\* insights[:limit]
SliceTo(s, limit) ==
    IF limit >= 0
    THEN SubSeq(s, 1, IF limit < Len(s) THEN limit ELSE Len(s))
    ELSE SubSeq(s, 1, IF Len(s) + limit > 0 THEN Len(s) + limit ELSE 0)

get_insights(insights, category, tier, limit, include_dismissed) ==
    SliceTo(SortInsights(SelectSeq(insights,
                LAMBDA data : Kept(data, category, tier, include_dismissed))), limit)

InitGetInsights ==
    /\ fnArgs \in [insights : {WithIds(s) : s \in SeqsUpTo(StoredInsights, MaxInsights)},
                   category : CategoryFilters,
                   tier : TierFilters,
                   limit : Limits,
                   include_dismissed : BOOLEAN]
    /\ fnResult = NotCalled
    /\ Quiet

CallGetInsights ==
    /\ fnResult = NotCalled
    /\ fnResult' = Returned(get_insights(fnArgs.insights, fnArgs.category, fnArgs.tier,
                                         fnArgs.limit, fnArgs.include_dismissed))
    /\ UNCHANGED <<fnArgs, storeVars, schedVars, exVars, sessVars>>

SpecGetInsights == InitGetInsights /\ [][CallGetInsights]_vars

\* ------------------------------------------------------ specifications
\* The store under every operation of the server.
SpecStore == Init /\ [][NextStore]_vars

\* The server started on an unparseable store file.
InitCorrupt == InitRecovery /\ InitSched

SpecRecovery == InitCorrupt /\ [][NextStore]_vars

\* The store when a rewrite of its file can fail.
SpecStoreFaults == Init /\ [][NextStoreFaults]_vars

\* The update calls are issued on a server whose scheduler is idle.
InitIssued == InitUpdates /\ InitSched

\* The three update functions called at once.
SpecUpdates == InitIssued /\ [][NextUpdates]_vars

\* The scheduler's tasks, their triggers, the clock and restarts.
SpecSched == InitServer /\ [][NextSched]_vars

\* The scheduler when reading or writing its state file can fail.
SpecSchedFaults == InitServer /\ [][NextSchedFaults]_vars

\* The scheduler with stop(), in one life of the process; an awaited call
\* of the loop always ends.
SpecStop == InitServer /\ [][NextStop]_vars /\ WF_vars(LoopResumes)

\* ---------------------------------------------------------- properties
StoredSnapshots == ReadStoreFile(disk).snapshots

StoredDates(f) == DOMAIN ReadStoreFile(f).snapshots

StoredInsightIds(f) == {ins.id : ins \in Range(ReadStoreFile(f).insights)}

Occurrences(seq, x) == Cardinality({i \in 1..Len(seq) : seq[i] = x})

AllUpdatesDone == started = Threads /\ \A t \in Threads : pc[t] = "idle"

\* C1: when the three update calls for one date run concurrently, in any
\* interleaving, every call can still proceed until all have completed, and
\* the final stored record of the date holds each call's field value and
\* each call's source tag.
C1_NoLostUpdate ==
    /\ ~AllUpdatesDone => ENABLED (\E t \in Threads : BeginIssued(t) \/ EndUpdate(t))
    /\ AllUpdatesDone =>
         \A t \in Threads :
            LET c == issued[t]
            IN  /\ c.date \in DOMAIN StoredSnapshots
                /\ StoredSnapshots[c.date][c.field] = c.val
                /\ SourceTag(c.field) \in Range(StoredSnapshots[c.date].sources_synced)

\* All three calls have completed on a store that held other data before.
C1_Witness ==
    /\ AllUpdatesDone
    /\ issued["main"].op = "update"
    /\ Cardinality(DOMAIN StoredSnapshots) = 2

\* C4: under any interleaving of store operations the stored snapshot
\* dates and the stored insight ids never shrink.
C4_NeverShrinks ==
    [][/\ StoredDates(disk) \subseteq StoredDates(disk')
       /\ StoredInsightIds(disk) \subseteq StoredInsightIds(disk')]_vars

\* A writer (upsert_snapshot, update_*, add_insight, save_store) completes.
WriteCompletes ==
    \E t \in Threads : pc[t] \in {"locked", "engage_mutated"} /\ pc'[t] = "idle"

FieldView(f, d, key) == ExistingGet(ReadStoreFile(f), d, key, DefaultVal)

\* C6: an update call leaves its source tag in sources_synced exactly once
\* and leaves the date's other two fields, every other date and the insight
\* list as they were; repeated with the value and the tag already stored,
\* it leaves the whole store as it was.
C6_IdempotentMerge ==
    [][\A t \in Threads :
          (pc[t] = "locked" /\ call[t].op = "update" /\ pc'[t] = "idle") =>
             LET c == call[t]
                 before == ReadStoreFile(disk)
                 after == ReadStoreFile(disk')
             IN  /\ c.date \in DOMAIN after.snapshots
                 /\ after.snapshots[c.date][c.field] = c.val
                 /\ Occurrences(after.snapshots[c.date].sources_synced,
                                SourceTag(c.field)) = 1
                 /\ \A g \in Fields \ {c.field} :
                        FieldView(disk', c.date, g) = FieldView(disk, c.date, g)
                 /\ \A d \in Dates \ {c.date} :
                        /\ d \in DOMAIN after.snapshots <=> d \in DOMAIN before.snapshots
                        /\ d \in DOMAIN before.snapshots =>
                               after.snapshots[d] = before.snapshots[d]
                 /\ after.insights = before.insights
                 /\ (/\ c.date \in DOMAIN before.snapshots
                     /\ before.snapshots[c.date][c.field] = c.val
                     /\ SourceTag(c.field) \in
                            Range(before.snapshots[c.date].sources_synced))
                        => after = before]_vars

\* An update call has completed whose value and tag were already stored for
\* its date, next to other sources of that date, and every thread is idle
\* again.
C6_Witness ==
    /\ repeated
    /\ \A t \in Threads : pc[t] = "idle"
    /\ \E d \in DOMAIN StoredSnapshots : Len(StoredSnapshots[d].sources_synced) >= 2

\* ------------------------------------------------ scheduler properties
Generating == {p \in Procs : spc[p] = "ig_generating"}

Fetching == {p \in Procs : spc[p] = "hs_fetching"}

PersistedState == LoadSchedulerState(sfile)

\* The positions of a run_insight_generation that has started a run.
InRun == {"ig_generating", "ig_nodata"}

\* The step in which run_insight_generation decides: it returns a result or
\* goes on to the generator.
InsightDecides(p) ==
    /\ spc[p] = "ig_gate"
    /\ spc'[p] \in InRun \/ sresult'[p].status # "none"

\* The task is due by the persisted timestamp and the interval alone.
InsightDue(st, t) ==
    \/ st.last_insight_generation = NoTime
    \/ (t - st.last_insight_generation) >= insight_generation_interval_hours

\* C2: for each task at most one execution is in flight at any time, and a
\* trigger that finds one in flight returns "already running" instead of
\* invoking the generator or the sync client.
C2_AtMostOneInFlight ==
    /\ Cardinality(Generating) <= 1
    /\ Cardinality(Fetching) <= 1

\* C3: with no run in flight (the one that set the persisted flag died
\* with the process), a non-forced trigger for a task that is due by the
\* persisted last_insight_generation and the interval is never answered
\* "already_running".
C3_NoStaleAlreadyRunning ==
    [][\A p \in Procs :
          (/\ InsightDecides(p)
           /\ ~sforce[p]
           /\ Generating = {}
           /\ PersistedState.is_generating
           /\ InsightDue(sstate[p], now))
          => sresult'[p].status # "already_running"]_vars

\* C7: a forced trigger that decides while a generation run is in flight
\* returns "already running" and starts no second run.
C7_ForcedRespectsRunning ==
    [][\A p \in Procs :
          (InsightDecides(p) /\ sforce[p] /\ Generating \ {p} # {})
          => (sresult'[p].status = "already_running" /\ spc'[p] \notin InRun)]_vars

\* The time elapsed since the last generation exceeds the interval (a task
\* that never ran counts as past it).
PastInterval(st, t) ==
    \/ st.last_insight_generation = NoTime
    \/ (t - st.last_insight_generation) > insight_generation_interval_hours

\* C8 as stated: a non-forced trigger starts a run only when the elapsed
\* time exceeds the interval, and is otherwise skipped with the file
\* unchanged and the remaining wait interval - elapsed; a forced trigger
\* starts a run.
C8_RunsOnlyPastInterval ==
    [][\A p \in Procs :
          InsightDecides(p) =>
             IF sforce[p] THEN spc'[p] \in InRun
             ELSE IF PastInterval(sstate[p], now) THEN TRUE
             ELSE /\ spc'[p] \notin InRun
                  /\ sresult'[p].status = "skipped"
                  /\ sresult'[p].next_run_in_hours =
                        insight_generation_interval_hours
                            - (now - sstate[p].last_insight_generation)
                  /\ sfile' = sfile]_vars

\* C8 as amended: a non-forced trigger whose loaded state flags no run
\* starts a run exactly when no generation is recorded or at least the
\* interval has elapsed since the last one; when less has elapsed it is
\* skipped, the generator is not invoked, the file is unchanged and the
\* remaining wait is interval - elapsed; when the loaded state flags a run
\* it returns "already_running". A forced trigger starts a run whatever
\* the elapsed time.
C8_CadenceGate ==
    [][\A p \in Procs :
          InsightDecides(p) =>
             IF sforce[p] THEN spc'[p] \in InRun
             ELSE IF sstate[p].is_generating
                  THEN /\ spc'[p] \notin InRun
                       /\ sresult'[p].status = "already_running"
                       /\ sfile' = sfile
             ELSE IF InsightDue(sstate[p], now) THEN spc'[p] \in InRun
             ELSE /\ spc'[p] \notin InRun
                  /\ sresult'[p].status = "skipped"
                  /\ sresult'[p].next_run_in_hours =
                        insight_generation_interval_hours
                            - (now - sstate[p].last_insight_generation)
                  /\ sfile' = sfile]_vars

\* One hour after a generation a non-forced trigger was skipped with five
\* hours to wait.
C8_Witness ==
    \E p \in Procs :
        /\ sresult[p].status = "skipped"
        /\ sresult[p].next_run_in_hours = 5
        /\ now - PersistedState.last_insight_generation = 1

\* C9: starting a run writes nothing to the scheduler state file, and the
\* persisted state never records a run in progress.
C9_NoWriteAtStart ==
    [][/\ \A p \in Procs :
             (spc[p] = "ig_gate" /\ spc'[p] \in InRun) => sfile' = sfile
       /\ ~LoadSchedulerState(sfile').is_generating]_vars

C11_FailureLetsHevyRun ==
    [][(\/ InsightGeneratorFails("loop")
        \/ InsightRaises("loop")
        \/ InsightLoadRaises("loop")
        \/ InsightSaveRaises("loop"))
          => spc'["loop"] = "loop_hevy"]_vars

\* C12: a run in which the generator fails or raises leaves the persisted
\* last_insight_generation as it was, and a run in which the sync client
\* raises leaves the persisted last_hevy_sync as it was.
C12_LastRunOnlyOnSuccess ==
    [][\A p \in Procs :
          /\ (InsightGeneratorFails(p) \/ InsightRaises(p)) =>
                LoadSchedulerState(sfile').last_insight_generation =
                    PersistedState.last_insight_generation
          /\ HevyRaises(p) =>
                LoadSchedulerState(sfile').last_hevy_sync =
                    PersistedState.last_hevy_sync]_vars

\* C13: a completion write of one task keeps the other task's persisted
\* fields: the Hevy sync's write leaves last_insight_generation and
\* insights_generated_today as the file had them, and an insight run's
\* write leaves last_hevy_sync as the file had it.
C13_WritesKeepOtherFields ==
    [][\A p \in Procs :
          /\ HevySucceeds(p) =>
                /\ LoadSchedulerState(sfile').last_insight_generation =
                       PersistedState.last_insight_generation
                /\ LoadSchedulerState(sfile').insights_generated_today =
                       PersistedState.insights_generated_today
          /\ (InsightReturns(p) \/ InsightGeneratorFails(p) \/ InsightRaises(p)) =>
                LoadSchedulerState(sfile').last_hevy_sync =
                    PersistedState.last_hevy_sync]_vars

\* C14: the upsert_snapshot that ends a nutrition/health sync of a date
\* keeps the workout data stored for that date and its "hevy" tag, whatever
\* update_workout calls completed since the sync read the date.
C14_SyncKeepsWorkout ==
    [][\A t \in Threads :
          (pc[t] = "locked" /\ call[t].op = "upsert" /\ pc'[t] = "idle") =>
             /\ FieldView(disk', snap.date, "workout") =
                    FieldView(disk, snap.date, "workout")
             /\ "hevy" \in Range(ExistingGet(ReadStoreFile(disk), snap.date,
                                             "sources_synced", <<>>))
                   => "hevy" \in Range(ExistingGet(ReadStoreFile(disk'), snap.date,
                                                   "sources_synced", <<>>))]_vars

\* The records a store holds of insight `id`.
InsightRecords(store, id) == {ins \in Range(store.insights) : ins.id = id}

\* C15: when the file write of a store operation raises, the cache holds
\* what it held before: a writer's failed write leaves the cached store as
\* it was, and after a failed update_insight_engagement a fresh cache shows
\* the insight as the file has it, without the engagement that was not
\* written.
C15_FailedWriteLeavesCache ==
    [][\A t \in Threads :
          /\ WriterRaises(t) =>
                /\ cache' = cache
                /\ cache # None => heap'[cache'] = heap[cache]
          /\ (SaveStoreRaises(t) /\ CacheFresh'
                /\ InsightRecords(ReadStoreFile(disk), call[t].iid) # {}) =>
                InsightRecords(heap'[cache'], call[t].iid) =
                    InsightRecords(ReadStoreFile(disk), call[t].iid)]_vars

\* C16: a rewrite of context_store.json that fails leaves the file holding
\* the complete previous store.
C16_FailedWriteLeavesFile ==
    [][\A t \in Threads : (WriterRaises(t) \/ SaveStoreRaises(t)) => disk' = disk]_vars

\* get_snapshot(date) found no record: the snapshot sync_insights_data goes
\* on with is DailySnapshot(date=date).
GotNone(t) == snap'.alias = None /\ snap' = [NoSnap EXCEPT !.date = snap'.date]

\* C17: with an unparseable context_store.json on disk, get_snapshot
\* returns None, and a write that completes leaves a parseable file that
\* holds what the write stored: the written field and tag of the date, the
\* added insight, or the upserted snapshot.
C17_CorruptFileRecovery ==
    [][disk.kind = "corrupt" =>
          \A t \in Threads :
             /\ SyncGet(t) => GotNone(t)
             /\ (EndUpdate(t) \/ EndAddInsight(t) \/ EndUpsert(t)) =>
                   /\ disk'.kind = "json"
                   /\ disk'.store = ApplyCall(EmptyStore, call[t], snap)
                   /\ call[t].op = "update" =>
                         /\ FieldView(disk', call[t].date, call[t].field) = call[t].val
                         /\ SourceTag(call[t].field) \in
                               Range(disk'.store.snapshots[call[t].date].sources_synced)
                   /\ call[t].op = "add_insight" =>
                         InsightRecords(disk'.store, call[t].iid) # {}
                   /\ call[t].op = "upsert" =>
                         disk'.store.snapshots[snap.date].nutrition = snap.nutrition]_vars

\* The one call made on the unparseable file was a nutrition/health sync:
\* its get_snapshot returned None and its upsert_snapshot left a valid file
\* with the synced date.
C17_Witness ==
    /\ disk.kind = "json"
    /\ calls = 1
    /\ \A t \in Threads : pc[t] = "idle"
    /\ \E d \in DOMAIN disk.store.snapshots :
           disk.store.snapshots[d].sources_synced = <<"nutrition", "health">>

\* C18: a generation that fails (the generator reports a failure or raises)
\* leaves the stored snapshots and the stored insight list as they were.
C18_FailedGenerationStoresNothing ==
    [][\A p \in Procs :
          (InsightGeneratorFails(p) \/ InsightRaises(p)) =>
             ReadStoreFile(disk') = ReadStoreFile(disk)]_vars

\* C19: a task execution of the loop that is in flight runs to completion,
\* stop() or not: a run awaiting the generator comes to its completion write
\* and return, and a sync awaiting the Hevy fetch comes to its return.
C19_InFlightRunCompletes ==
    /\ (spc["loop"] = "ig_generating") ~> (spc["loop"] = "loop_hevy")
    /\ (spc["loop"] = "hs_fetching") ~>
           (spc["loop"] = "idle" /\ sresult["loop"].status # "none")

\* C20: the generator and the Hevy fetch are awaited only by the scheduler
\* loop, never by a coroutine of an HTTP request.
C20_OnlyOnSchedulerPath ==
    \A p \in Procs : spc[p] \in {"ig_generating", "hs_fetching"} => ~OnServerLoop(p)

\* -------------------------------------------------- properties of the library
\* C21: a stored insight has a category among correlation, trend, anomaly,
\* milestone and nudge, a tier from 1 to 5, and an engagement that is absent
\* or one of viewed, tapped, dismissed and acted.
C21_InsightFieldsValid ==
    fnResult # NotCalled =>
        /\ fnResult[1].category \in {"correlation", "trend", "anomaly", "milestone", "nudge"}
        /\ fnResult[1].tier \in 1..5
        /\ fnResult[1].engagement \in {None, "viewed", "tapped", "dismissed", "acted"}

\* C22: compute_ema returns its input unchanged for an empty list or a
\* period below 1; otherwise a list as long as the input whose first element
\* is the first value and whose i-th element is values[i]*k + ema[i-1]*(1-k)
\* with k = 2/(period+1); [10,10,10] with period 1 gives [10,10,10] and
\* [10,20] with period 9 gives [10,12].
C22_EmaCorrect ==
    fnResult # NotCalled =>
        LET values == fnArgs.values
            p == fnArgs.period
            ema == fnResult[1]
        IN  IF values = <<>> \/ p <= 0 THEN ema = values
            ELSE /\ Len(ema) = Len(values)
                 /\ ema[1][1] = values[1] * ema[1][2]
                 /\ \A i \in 2..Len(values) :
                        \* ema[i] * (p+1) = 2*values[i] + (p-1)*ema[i-1]
                        ema[i][1] * (p + 1) * ema[i-1][2] =
                            (2 * values[i] * ema[i-1][2] + (p - 1) * ema[i-1][1]) * ema[i][2]
                 /\ (values = <<10, 10, 10>> /\ p = 1) => ema = <<Rat(10), Rat(10), Rat(10)>>
                 /\ (values = <<10, 20>> /\ p = 9) => ema = <<Rat(10), Rat(12)>>

C22_Witness ==
    /\ fnResult # NotCalled
    /\ fnArgs.values = <<10, 20>>
    /\ fnArgs.period = 9
    /\ fnResult[1] = <<Rat(10), Rat(12)>>

\* C23: a trend is reported only for at least 5 performances that span at
\* least 14 days; below that the trend is unknown, for get_top_exercises'
\* improvement and for get_exercise_chart_data's trend.
C23_TrendNeedsEnoughData ==
    fnResult # NotCalled =>
        LET ps == fnArgs.performances
        IN  (Len(ps) < 5 \/ ps[Len(ps)].date - ps[1].date < 14) => fnResult[1] = Unknown

\* The readings of a window, oldest first, fall (rise) from each to the next.
Falling(s) == \A i \in 1..(Len(s) - 1) : s[i] > s[i + 1]
Rising(s) == \A i \in 1..(Len(s) - 1) : s[i] < s[i + 1]

\* C24: with fewer than 3 readings the field is omitted; otherwise current
\* is the smoothed value at the most recent reading of the oldest-first
\* list, a window whose readings fall steadily is "losing" and one whose
\* readings rise steadily is "gaining".
C24_TrendFollowsReadings ==
    fnResult # NotCalled =>
        LET chron == Truthy(fnArgs.snapshots)
            ema == compute_ema(chron, fnArgs.ema_period)
        IN  IF Len(chron) < 3 THEN fnResult[1] = Unknown
            ELSE /\ fnResult[1] # Unknown
                 /\ fnResult[1][1].current = Round1(ema[Len(ema)])
                 /\ Falling(chron) => fnResult[1][1].direction = "losing"
                 /\ Rising(chron) => fnResult[1][1].direction = "gaining"

\* A list of snapshots is in ascending date order, each date once.
AscendingDates(s) == \A i, j \in 1..Len(s) : i < j => ParseDate(s[i]) < ParseDate(s[j])

\* C25: get_snapshots_range returns exactly the stored snapshots dated from
\* start to end, each once, in ascending date order; get_recent_snapshots(N)
\* returns the stored snapshots of the N days that end today, so at most N.
C25_RangeAndRecent ==
    fnResult # NotCalled =>
        LET out == fnResult[1]
        IN  /\ AscendingDates(out)
            /\ fnArgs.fn = "get_snapshots_range" =>
                   Range(out) = {k \in fnArgs.snapshots :
                                    /\ ParseDate(fnArgs.start_date) <= ParseDate(k)
                                    /\ ParseDate(k) <= ParseDate(fnArgs.end_date)}
            /\ fnArgs.fn = "get_recent_snapshots" =>
                   /\ Range(out) = {k \in fnArgs.snapshots :
                                       /\ Today - fnArgs.days < ParseDate(k)
                                       /\ ParseDate(k) <= Today}
                   /\ Len(out) <= fnArgs.days

\* The performances upsert_performance was called with for an exercise and a date.
UpsertedFor(name, date) == {u.perf : u \in {v \in upserted : v.name = name /\ v.perf.date = date}}

\* C29: each exercise has one performance for each date upserted and no
\* other, carrying the highest e1RM upserted for that date; performances are
\* in ascending date order, workout_count is their number and current_pr has
\* the highest e1RM of them.
C29_BestPerDate ==
    \A name \in DOMAIN exercises :
        LET h == exercises[name]
            ps == h.performances
            n == Len(ps)
        IN  /\ \A i, j \in 1..n : i < j => ps[i].date < ps[j].date
            /\ {ps[i].date : i \in 1..n} = {u.perf.date : u \in {v \in upserted : v.name = name}}
            /\ \A i \in 1..n :
                   /\ ps[i] \in UpsertedFor(name, ps[i].date)
                   /\ \A q \in UpsertedFor(name, ps[i].date) : q.e1rm <= ps[i].e1rm
            /\ h.workout_count = n
            /\ h.current_pr # <<>>
            /\ \E i \in 1..n :
                   /\ h.current_pr[1] = [reps |-> ps[i].best_reps, date |-> ps[i].date,
                                         e1rm |-> ps[i].e1rm]
                   /\ \A j \in 1..n : ps[j].e1rm <= ps[i].e1rm

\* Three calls were made for one exercise: two for one date with different
\* e1RM and one for another date.
C29_Witness ==
    /\ Cardinality(upserted) = MaxUpserts
    /\ \E name \in DOMAIN exercises :
           /\ Len(exercises[name].performances) = 2
           /\ Cardinality({q.e1rm : q \in UpsertedFor(name, 1)}) = 2

\* C28: between clears every get_or_create_session call returns the same
\* session id and, once the calls made have returned, the stored
\* message_count is their number, also when calls overlap; get_session_info
\* leaves the stored sessions as they are.
C28_OneSessionCountsCalls ==
    /\ [](/\ Cardinality(sessLog.ids) <= 1
          /\ (sessLog.calls > 0 /\ \A t \in SessThreads : sessPc[t] = "idle")
                => /\ sessFile # <<>>
                   /\ sessFile[1].message_count = sessLog.calls)
    /\ [][(\E t \in SessThreads : GetSessionInfo(t)) => sessFile' = sessFile]_vars

\* C27: call_claude retries a "session not found" answer a bounded number
\* of times of its own: it never goes on clearing and retrying until the
\* interpreter refuses a deeper call, and it ends with the LLMResponse of a
\* CLI answer or of a timeout.
C27_RetriesBounded ==
    claude.pc = "returned" => claude.result \in {"success", "error", "timeout"}

\* The ids add_insight can have given out.
InsightIds == 1..MaxCalls

\* context_store.json holds the insight with dismissed_at set: an
\* update_insight_engagement(id, "dismissed") has saved the store.
DismissedOnDisk(id) ==
    /\ disk.kind = "json"
    /\ \E i \in 1..Len(disk.store.insights) :
           /\ disk.store.insights[i].id = id
           /\ disk.store.insights[i].dismissed_at

\* get_insights(include_dismissed=False), called now, has the insight in
\* the list it filters and does not drop it.
InsightVisible(id) ==
    \E i \in 1..Len(LoadStoreValue.insights) :
        /\ LoadStoreValue.insights[i].id = id
        /\ ~LoadStoreValue.insights[i].dismissed_at

\* C26: once update_insight_engagement(id, "dismissed") has completed,
\* get_insights(include_dismissed=False) never returns the insight again,
\* whatever engagement calls and store operations follow or interleave.
C26_DismissedStaysHidden ==
    \A id \in InsightIds : [](DismissedOnDisk(id) => [](~InsightVisible(id)))

\* A dismissed insight was engaged with again ("viewed") and the store saved.
C26_Witness ==
    /\ disk.kind = "json"
    /\ \E i \in 1..Len(disk.store.insights) :
           /\ disk.store.insights[i].dismissed_at
           /\ disk.store.insights[i].engagement = "viewed"
    /\ \A t \in DOMAIN pc : pc[t] = "idle"

\* An insight the filters of the call let through: a category or tier
\* filter that is given must match, and a dismissed insight passes only
\* with include_dismissed.
MatchesFilters(data) ==
    /\ fnArgs.category # "" => data.category = fnArgs.category
    /\ fnArgs.tier # 0 => data.tier = fnArgs.tier
    /\ ~fnArgs.include_dismissed => ~data.dismissed_at

\* a ranks strictly above b: higher importance x confidence, or the same
\* and created later.
RanksAbove(a, b) ==
    \/ a.importance * a.confidence > b.importance * b.confidence
    \/ /\ a.importance * a.confidence = b.importance * b.confidence
       /\ a.created_at > b.created_at

\* C30: get_insights returns at most `limit` insights (none for a limit
\* below 1), each a stored insight that matches the filters, none twice,
\* in descending order of importance x confidence with the newer first
\* among equals, and no matching insight left out ranks above one returned.
C30_TopMatchingInsights ==
    fnResult # NotCalled =>
        LET r == fnResult[1]
            stored == {fnArgs.insights[i] : i \in 1..Len(fnArgs.insights)}
            returned == {r[i] : i \in 1..Len(r)}
        IN  /\ Len(r) <= (IF fnArgs.limit > 0 THEN fnArgs.limit ELSE 0)
            /\ returned \subseteq {data \in stored : MatchesFilters(data)}
            /\ Cardinality(returned) = Len(r)
            /\ \A i, j \in 1..Len(r) : i < j => ~RanksAbove(r[j], r[i])
            /\ \A out \in {data \in stored : MatchesFilters(data)} \ returned :
                   \A kept \in returned : ~RanksAbove(out, kept)

====
